---- MODULE Spec2Model ----
(***************************************************************************)
(* A model of the LFTP command builder of src/src/lftp.js: the option      *)
(* validator and normalizer, the shell escaper, the preamble assembler,    *)
(* the subcommand builders with their queue, and the executor.             *)
(*                                                                         *)
(* JavaScript strings are TLA+ strings (Len, \o and SubSeq act on them).   *)
(* Every other JavaScript value is a tagged record, see Str, Num, Bool,    *)
(* Undef; a property that an options object does not have is Absent.       *)
(***************************************************************************)
EXTENDS Integers, Sequences, FiniteSets, TLC

VARIABLES
    esc,          \* one call of escapeShell: its argument, and its result
    ctor,         \* one call of new LFTP(opts): the opts, and how it ended
    options,      \* this.options
    spawnOptions, \* this.spawnOptions
    cmds,         \* this.cmds, the queue
    last,         \* what the most recent method call was given and did
    lftp,         \* the process of the most recent exec, and its promise
    hist          \* where it is kept: every entry queued, every exec so far

vars == <<esc, ctor, options, spawnOptions, cmds, last, lftp, hist>>

----------------------------------------------------------------------------
(* Bounds of the model.                                                    *)

\* The longest string handed to escapeShell.
MaxLen == 3
\* The largest number a numeric option or argument takes.
MaxNum == 3
\* Builders are called while the queue is shorter than this.
MaxQueue == 2
\* The most events one process emits.
MaxEvents == 4
\* Where the history is kept: the most calls of exec, and the most entries
\* queued in all.
MaxExecs == 2
MaxAppended == 3

----------------------------------------------------------------------------
(* JavaScript values.                                                      *)

Undef == [t |-> "undefined", s |-> "", n |-> 0, b |-> FALSE]
Absent == [t |-> "absent", s |-> "", n |-> 0, b |-> FALSE]
Str(x) == [t |-> "string", s |-> x, n |-> 0, b |-> FALSE]
Num(k) == [t |-> "number", s |-> "", n |-> k, b |-> FALSE]
Bool(x) == [t |-> "boolean", s |-> "", n |-> 0, b |-> x]

\* typeDetect(v) for the primitive values of the model.
typeDetect(v) == v.t

\* opts.hasOwnProperty(k)
Has(bag, k) == bag[k].t # "absent"

\* opts.k: a property that is not there reads as undefined.
Get(bag, k) == IF bag[k].t = "absent" THEN Undef ELSE bag[k]

\* ToBoolean: what `if(v)` and `!v` see.
Truthy(v) ==
    CASE v.t = "string" -> v.s # ""
      [] v.t = "number" -> v.n # 0
      [] v.t = "boolean" -> v.b
      [] OTHER -> FALSE

\* a || b
JsOr(a, b) == IF Truthy(a) THEN a ELSE b

Digits == <<"0", "1", "2", "3", "4", "5", "6", "7", "8", "9">>

RECURSIVE NumStr(_)
\* Number.prototype.toString of a natural number.
NumStr(k) ==
    IF k < 10 THEN Digits[k + 1]
    ELSE NumStr(k \div 10) \o Digits[(k % 10) + 1]

\* ToString, as a template literal `${v}` applies it.
ToStr(v) ==
    CASE v.t = "string" -> v.s
      [] v.t = "number" -> NumStr(v.n)
      [] v.t = "boolean" -> IF v.b THEN "true" ELSE "false"
      [] OTHER -> "undefined"

\* What Array.prototype.join makes of one element: undefined gives ''.
JoinStr(v) == IF v.t = "undefined" THEN "" ELSE ToStr(v)

RECURSIVE Join(_, _)
\* Array.prototype.join on an array of strings.
Join(seq, sep) ==
    IF Len(seq) = 0 THEN ""
    ELSE IF Len(seq) = 1 THEN seq[1]
    ELSE seq[1] \o sep \o Join(Tail(seq), sep)

CharAt(s, i) == SubSeq(s, i, i)

UpperCase == "ABCDEFGHIJKLMNOPQRSTUVWXYZ"
LowerCase == "abcdefghijklmnopqrstuvwxyz"

\* One character lower-cased.
LowerChar(c) ==
    IF \E i \in 1..26 : CharAt(UpperCase, i) = c
    THEN CharAt(LowerCase, CHOOSE i \in 1..26 : CharAt(UpperCase, i) = c)
    ELSE c

RECURSIVE toLowerCase(_)
\* String.prototype.toLowerCase (ASCII letters).
toLowerCase(s) ==
    IF s = "" THEN ""
    ELSE LowerChar(CharAt(s, 1)) \o toLowerCase(SubSeq(s, 2, Len(s)))

----------------------------------------------------------------------------
(* The shell escaper.                                                      *)

\* The characters \s matches, among those a TLA+ string can hold.
Whitespace == {" ", "\t", "\n", "\r", "\f"}

\* A TLA+ string literal cannot hold the grave accent (the backquote): the
\* model writes that one character as "^", which stands for nothing else.
Backquote == "^"

\* The character class of the regular expression of escapeShell: double
\* quote, whitespace, single quote, dollar, backquote, brackets, backslash.
SpecialChars == {"\"", "'", "$", Backquote, "[", "]", "\\"} \cup Whitespace

RECURSIVE ReplaceSpecial_keepBackslash(_)
\* ReplaceSpecial with the backslash left out of the character class.
ReplaceSpecial_keepBackslash(s) ==
    IF s = "" THEN ""
    ELSE LET c == CharAt(s, 1)
         IN (IF c \in SpecialChars \ {"\\"} THEN "\\" \o c ELSE c)
                \o ReplaceSpecial_keepBackslash(SubSeq(s, 2, Len(s)))

RECURSIVE ReplaceSpecial_nonWord(_)
\* ReplaceSpecial with every character that is no letter and no digit in the
\* character class (the class written as \W).
ReplaceSpecial_nonWord(s) ==
    IF s = "" THEN ""
    ELSE LET c == CharAt(s, 1)
             word == UpperCase \o LowerCase \o "0123456789_"
         IN (IF \E i \in 1..Len(word) : CharAt(word, i) = c
                THEN c ELSE "\\" \o c)
                \o ReplaceSpecial_nonWord(SubSeq(s, 2, Len(s)))

RECURSIVE ReplaceSpecial(_)
\* cmd.replace(<the class above>, '\\$1') with the g flag: one pass from the
\* left, every match replaced by a backslash and the match.
ReplaceSpecial(s) ==
    IF s = "" THEN ""
    ELSE LET c == CharAt(s, 1)
         IN (IF c \in SpecialChars THEN "\\" \o c ELSE c)
                \o ReplaceSpecial(SubSeq(s, 2, Len(s)))

escapeShell(cmd) ==
    IF typeDetect(cmd) # "string" THEN Str("")
    ELSE Str(ReplaceSpecial(cmd.s))

\* _escapeShell that hands only strings back when escaping is off.
_escapeShell_stringsOnly(cmd) ==
    IF Truthy(options.escape) \/ typeDetect(cmd) # "string"
    THEN escapeShell(cmd) ELSE cmd

_escapeShell(cmd) ==
    IF Truthy(options.escape) THEN escapeShell(cmd) ELSE cmd

----------------------------------------------------------------------------
(* The option validator and the constructor.                               *)

acceptableProtocols == {"ftp", "sftp", "ftps"}

\* _includes(acceptableProtocols, v)
IsAcceptableProtocol(v) == v.t = "string" /\ v.s \in acceptableProtocols

\* The password is required: opts.requiresPassword || true.
requiresPassword(opts) == JsOr(Get(opts, "requiresPassword"), Bool(TRUE))

\* validateOptions without its check of the protocol.
validateOptions_anyProtocol(opts) ==
    IF ~Has(opts, "host") THEN "LFTP opts must include host"
    ELSE IF ~Has(opts, "username") THEN "LFTP opts must include username"
    ELSE IF Truthy(requiresPassword(opts)) /\ ~Has(opts, "password")
        THEN "LFTP opts must include password"
    ELSE ""

\* The message validateOptions fails with, or "" when it returns.
validateOptions(opts) ==
    IF ~Has(opts, "host") THEN "LFTP opts must include host"
    ELSE IF ~Has(opts, "username") THEN "LFTP opts must include username"
    ELSE IF Truthy(requiresPassword(opts)) /\ ~Has(opts, "password")
        THEN "LFTP opts must include password"
    ELSE IF Has(opts, "protocol") /\ ~IsAcceptableProtocol(Get(opts, "protocol"))
        THEN "LFTP opts.protocol must be ftp, sftp, or ftps."
    ELSE ""

DefaultProtocol == "sftp"
DefaultPort == 22
DefaultRetries == 1
DefaultTimeout == 10
DefaultRetryInterval == 5
DefaultRetryIntervalMultiplier == 1

\* const protocol = (opts.protocol || 'sftp').toLowerCase()
ctorProtocol(opts) ==
    toLowerCase(ToStr(JsOr(Get(opts, "protocol"), Str(DefaultProtocol))))

\* ctorPort with the default of the ftp protocol for an ftp connection.
ctorPort_ftpDefault(opts) ==
    JsOr(Get(opts, "port"),
         IF Get(opts, "protocol") = Str("ftp") THEN Num(21) ELSE Num(DefaultPort))

\* const port = opts.port || 22
ctorPort(opts) == JsOr(Get(opts, "port"), Num(DefaultPort))

\* const host = `${protocol}://${opts.host}:${port}`
ctorHost(opts) ==
    ctorProtocol(opts) \o "://" \o ToStr(Get(opts, "host")) \o ":"
        \o ToStr(ctorPort(opts))

\* retries: opts.retries || 1
ctorRetries(opts) == JsOr(Get(opts, "retries"), Num(DefaultRetries))

\* this.options, as the constructor fills it.
ctorOptions(opts) ==
    [ host |-> Str(ctorHost(opts)),
      username |-> Get(opts, "username"),
      password |-> JsOr(Get(opts, "password"), Str("")),
      protocol |-> Str(ctorProtocol(opts)),
      escape |-> IF Has(opts, "escape") THEN Get(opts, "escape") ELSE Bool(TRUE),
      retries |-> ctorRetries(opts),
      timeout |-> JsOr(Get(opts, "timeout"), Num(DefaultTimeout)),
      retryInterval |-> JsOr(Get(opts, "retryInterval"), Num(DefaultRetryInterval)),
      retryIntervalMultiplier |->
          JsOr(Get(opts, "retryIntervalMultiplier"),
               Num(DefaultRetryIntervalMultiplier)),
      autoConfirm |->
          IF Has(opts, "autoConfirm") THEN Get(opts, "autoConfirm")
          ELSE Bool(FALSE) ]

\* this.spawnOptions: cwd when opts has it.
ctorSpawnOptions(opts) ==
    [cwd |-> IF Has(opts, "cwd") THEN Get(opts, "cwd") ELSE Absent]

\* The fields of an instance that does not exist.
NoOptions ==
    [ host |-> Undef, username |-> Undef, password |-> Undef,
      protocol |-> Undef, escape |-> Undef, retries |-> Undef,
      timeout |-> Undef, retryInterval |-> Undef,
      retryIntervalMultiplier |-> Undef, autoConfirm |-> Undef ]
NoSpawnOptions == [cwd |-> Absent]

----------------------------------------------------------------------------
(* The preamble assembler.                                                 *)

\* baseCmd with the auto-confirm statement emitted for every protocol.
baseCmd_autoConfirmAnyProtocol ==
    (IF Truthy(options.autoConfirm)
        THEN <<"set sftp:auto-confirm yes">> ELSE <<>>)
    \o << "set net:max-retries " \o ToStr(options.retries),
          "set net:timeout " \o ToStr(options.timeout),
          "set net:reconnect-interval-base " \o ToStr(options.retryInterval),
          "set net:reconnect-interval-multiplier "
              \o ToStr(options.retryIntervalMultiplier),
          "open -u \"" \o ToStr(_escapeShell(options.username)) \o "\",\""
              \o ToStr(_escapeShell(options.password)) \o "\" \""
              \o ToStr(options.host) \o "\"" >>

baseCmd ==
    (IF options.protocol = Str("sftp") /\ Truthy(options.autoConfirm)
        THEN <<"set sftp:auto-confirm yes">> ELSE <<>>)
    \o << "set net:max-retries " \o ToStr(options.retries),
          "set net:timeout " \o ToStr(options.timeout),
          "set net:reconnect-interval-base " \o ToStr(options.retryInterval),
          "set net:reconnect-interval-multiplier "
              \o ToStr(options.retryIntervalMultiplier),
          "open -u \"" \o ToStr(_escapeShell(options.username)) \o "\",\""
              \o ToStr(_escapeShell(options.password)) \o "\" \""
              \o ToStr(options.host) \o "\"" >>

----------------------------------------------------------------------------
(* The queue and the subcommand builders. A builder is an operator on the  *)
(* instance's queue cmds: it gives what the call did, as a record          *)
(*   threw: whether it threw, err: the error's type, msg: its message,     *)
(*   cmds: the queue after the call, ret: "this" when the call returned    *)
(*   the instance, "undefined" when it returned nothing, options:          *)
(*   this.options after the call.                                          *)

\* fail(msg) under a queue q: throw new Error(msg).
failOn(q, m) ==
    [ threw |-> TRUE, err |-> "Error", msg |-> m, cmds |-> q, ret |-> "none",
      options |-> options ]

fail(m) == failOn(cmds, m)

\* A TypeError the runtime throws under a queue q.
typeErrorOn(q, m) ==
    [ threw |-> TRUE, err |-> "TypeError", msg |-> m, cmds |-> q,
      ret |-> "none", options |-> options ]

\* rawOn that switches the escaping off, as for a command given verbatim.
rawOn_escapeOff(q, cmd) ==
    [ threw |-> FALSE, err |-> "", msg |-> "",
      cmds |-> IF typeDetect(cmd) = "string" THEN Append(q, cmd.s) ELSE q,
      ret |-> "this", options |-> [options EXCEPT !.escape = Bool(FALSE)] ]

\* rawOn that queues what it is given as a string, whatever it is.
rawOn_stringified(q, cmd) ==
    [ threw |-> FALSE, err |-> "", msg |-> "",
      cmds |-> Append(q, ToStr(cmd)),
      ret |-> "this", options |-> options ]

\* raw(cmd) under a queue q: push a string, return this.
rawOn(q, cmd) ==
    [ threw |-> FALSE, err |-> "", msg |-> "",
      cmds |-> IF typeDetect(cmd) = "string" THEN Append(q, cmd.s) ELSE q,
      ret |-> "this", options |-> options ]

raw(cmd) == rawOn(cmds, cmd)

\* An options object with the given keys and none of them set.
NoOpts(keys) == [k \in keys |-> Absent]

\* `${this._escapeShell(v)}` in a template literal.
EscTpl(v) == ToStr(_escapeShell(v))

\* this._escapeShell(v) as an element of an array that is joined.
EscJoin(v) == JoinStr(_escapeShell(v))

\* cmd.join(' ')
JoinSp(seq) == Join(seq, " ")

\* if(c) { cmd.push(x) }
Push(c, x) == IF c THEN <<x>> ELSE <<>>

\* _map(files, this._escapeShell.bind(this)).join(' ')
EscAll(files) == JoinSp([i \in 1..Len(files) |-> EscJoin(files[i])])

alias(name, value) ==
    IF ~Truthy(name) THEN raw(Str("alias"))
    ELSE IF ~Truthy(value) THEN raw(Str("alias " \o EscTpl(name)))
    ELSE raw(Str("alias " \o EscTpl(name) \o " " \o EscTpl(value)))

at(time) ==
    IF ~Truthy(time) THEN fail("at() requires time argument")
    ELSE raw(Str("at " \o EscTpl(time)))

attach(pid) ==
    IF ~Truthy(pid) THEN fail("attach() requires pid argument")
    ELSE raw(Str("attach " \o ToStr(pid)))

BookmarkKeys == {"name", "loc", "type"}

bookmark(subCmd, opts) ==
    CASE subCmd = Str("add") ->
            IF Has(opts, "name")
            THEN raw(Str(JoinSp(<<"bookmark", "add " \o EscTpl(Get(opts, "name"))>>
                        \o Push(Has(opts, "loc"), EscJoin(Get(opts, "loc"))))))
            ELSE fail("bookmark(add) opts argument requires name property")
      [] subCmd = Str("del") ->
            IF Has(opts, "name")
            THEN raw(Str(JoinSp(<<"bookmark", "del " \o EscTpl(Get(opts, "name"))>>)))
            ELSE fail("bookmark(del) opts argument requires name property")
      [] subCmd = Str("edit") -> raw(Str(JoinSp(<<"bookmark", "edit">>)))
      [] subCmd = Str("import") ->
            IF Has(opts, "type")
            THEN raw(Str(JoinSp(<<"bookmark",
                                  "import " \o EscTpl(Get(opts, "type"))>>)))
            ELSE fail("bookmark(import) opts argument requires type property")
      [] subCmd = Str("list") -> raw(Str(JoinSp(<<"bookmark", "list">>)))
      [] OTHER -> fail("bookmark() requires subCmd argument")

CacheKeys == {"lim", "n", "unit"}
acceptableUnits == {"s", "m", "h", "d"}

cache(subCmd, opts) ==
    CASE subCmd \in {Str("stat"), Str("on"), Str("off"), Str("flush")} ->
            raw(Str(JoinSp(<<"cache", subCmd.s>>)))
      [] subCmd = Str("size") ->
            IF Has(opts, "lim")
            THEN raw(Str(JoinSp(<<"cache", "size " \o ToStr(Get(opts, "lim"))>>)))
            ELSE fail("cache(size) opts argument requires lim property")
      [] subCmd = Str("expire") ->
            IF /\ Has(opts, "n") /\ Has(opts, "unit")
               /\ Get(opts, "unit").t = "string"
               /\ Get(opts, "unit").s \in acceptableUnits
            THEN raw(Str(JoinSp(<<"cache",
                                  "expire " \o ToStr(Get(opts, "n"))
                                      \o ToStr(Get(opts, "unit"))>>)))
            ELSE fail("cache(expire) opts argument requires n and unit properties")
      [] OTHER -> fail("cache() requires subCmd argument")

cat(path) ==
    IF ~Truthy(path) THEN fail("cat() requires path argument")
    ELSE raw(Str("cat " \o EscTpl(path)))

cd(dir) ==
    IF ~Truthy(dir) THEN fail("cd() requires dir argument")
    ELSE raw(Str("cd " \o EscTpl(dir)))

\* chmod(mode, ...files): files is the sequence of the rest arguments.
chmod(mode, files) ==
    IF ~Truthy(mode) THEN fail("chmod() requires mode argument")
    ELSE IF Len(files) = 0 THEN fail("chmod() requires files argument(s)")
    ELSE raw(Str("chmod " \o ToStr(mode) \o " " \o EscAll(files)))

close(all) ==
    raw(Str(JoinSp(<<"close">> \o Push(Truthy(all), "-a"))))

ClsKeys == {"singleColumn", "dirsFirst"}

cls(opts) ==
    raw(Str(JoinSp(<<"cls">>
        \o Push(Truthy(Get(opts, "singleColumn")), "-1")
        \o Push(Truthy(Get(opts, "dirsFirst")), "-D"))))

DebugKeys == {"truncate", "outputFile", "context", "pid", "timestamps"}

debug(level, opts) ==
    IF ~Truthy(level) THEN fail("debug() requires level argument")
    ELSE IF typeDetect(level) = "string" /\ level # Str("off")
        THEN fail("debug() level argument must be a number or \"off\"")
    ELSE raw(Str(JoinSp(<<"debug">>
            \o Push(Has(opts, "truncate"), "-T")
            \o Push(Has(opts, "outputFile"),
                    "-o " \o EscTpl(Get(opts, "outputFile")))
            \o Push(Has(opts, "context"), "-c")
            \o Push(Has(opts, "pid"), "-p")
            \o Push(Has(opts, "timestamps"), "-t")
            \o <<JoinStr(level)>>)))

echo(str) == raw(Str("echo " \o EscTpl(str)))

EditKeys == {"keepTempFile", "tempFileLocation"}

edit(file, opts) ==
    IF ~Truthy(file) THEN fail("edit() requires file argument")
    ELSE IF typeDetect(file) # "string"
        THEN fail("edit() file argument must be a string")
    ELSE raw(Str(JoinSp(<<"edit">>
            \o Push(Truthy(Get(opts, "keepTempFile")), "-k")
            \o Push(Has(opts, "tempFileLocation"),
                    "-o " \o ToStr(Get(opts, "tempFileLocation")))
            \o <<EscJoin(file)>>)))

EvalKeys == {"format"}

eval(args, opts) ==
    IF ~Truthy(args) THEN fail("eval() requires args argument")
    ELSE raw(Str(JoinSp(<<"eval">>
            \o Push(Has(opts, "format"), "-f " \o ToStr(Get(opts, "format")))
            \o <<JoinStr(args)>>)))

ExitKeys == {"code"}

\* exit has no return statement: a call that does not throw returns undefined.
exit(subCmd, opts) ==
    IF subCmd \notin {Str("bg"), Str("top"), Str("parent"), Str("kill")}
    THEN fail("exit() requires subCmd argument")
    ELSE [ raw(Str(JoinSp(<<"exit", subCmd.s>>
                \o Push(Has(opts, "code"), JoinStr(Get(opts, "code"))))))
           EXCEPT !.ret = "undefined" ]

FindKeys == {"maxScanDepth", "longListing", "directory"}

find(opts) ==
    raw(Str(JoinSp(<<"find">>
        \o Push(Has(opts, "maxScanDepth"),
                "-d " \o ToStr(Get(opts, "maxScanDepth")))
        \o Push(Truthy(Get(opts, "longListing")), "-l")
        \o Push(Has(opts, "directory"), EscJoin(Get(opts, "directory"))))))

GetKeys ==
    {"continue", "deleteSrcOnSuccess", "deleteTargetBefore", "asciiMode", "base",
     "localPath"}

\* get with the -o of localPath pushed before the remote path.
get_localPathBeforeRemote(remotePath, opts) ==
    IF ~Truthy(remotePath) THEN fail("get() require remotePath argument")
    ELSE raw(Str(JoinSp(<<"get">>
            \o Push(Truthy(Get(opts, "continue")), "-c")
            \o Push(Truthy(Get(opts, "deleteSrcOnSuccess")), "-E")
            \o Push(Truthy(Get(opts, "deleteTargetBefore")), "-e")
            \o Push(Truthy(Get(opts, "asciiMode")), "-a")
            \o Push(Has(opts, "base"), "-O " \o EscTpl(Get(opts, "base")))
            \o Push(Has(opts, "localPath"),
                    "-o " \o EscTpl(Get(opts, "localPath")))
            \o <<EscJoin(remotePath)>>)))

get(remotePath, opts) ==
    IF ~Truthy(remotePath) THEN fail("get() require remotePath argument")
    ELSE raw(Str(JoinSp(<<"get">>
            \o Push(Truthy(Get(opts, "continue")), "-c")
            \o Push(Truthy(Get(opts, "deleteSrcOnSuccess")), "-E")
            \o Push(Truthy(Get(opts, "deleteTargetBefore")), "-e")
            \o Push(Truthy(Get(opts, "asciiMode")), "-a")
            \o Push(Has(opts, "base"), "-O " \o EscTpl(Get(opts, "base")))
            \o <<EscJoin(remotePath)>>
            \o Push(Has(opts, "localPath"),
                    "-o " \o EscTpl(Get(opts, "localPath"))))))

Get1Keys ==
    {"destFileName", "continue", "deleteSrcOnSuccess", "asciiMode", "srcRegion",
     "targetPos"}

get1(remoteFile, opts) ==
    IF ~Truthy(remoteFile) THEN fail("get1() requires remoteFile argument")
    ELSE raw(Str(JoinSp(<<"get1">>
            \o Push(Has(opts, "destFileName"),
                    "-o " \o EscTpl(Get(opts, "destFileName")))
            \o Push(Truthy(Get(opts, "continue")), "-c")
            \o Push(Truthy(Get(opts, "deleteSrcOnSuccess")), "-E")
            \o Push(Truthy(Get(opts, "asciiMode")), "-a")
            \o Push(Has(opts, "srcRegion"),
                    "--source-region=" \o ToStr(Get(opts, "srcRegion")))
            \o Push(Has(opts, "targetPos"),
                    "--target-position=" \o ToStr(Get(opts, "targetPos")))
            \o <<EscJoin(remoteFile)>>)))

GlobKeys ==
    {"plainFiles", "directories", "allTypes", "exist", "notExist", "command"}

\* glob that queues the bare entry when neither an existence test nor a
\* command is given.
glob_bareWhenNothingGiven(patterns, opts) ==
    IF ~Truthy(patterns) THEN fail("glob() requires patterns argument")
    ELSE LET existanceSpecified ==
                 Truthy(Get(opts, "exist")) \/ Truthy(Get(opts, "notExist"))
             commandSpecified == Has(opts, "command")
             cmd ==
                 <<"glob">>
                 \o Push(Truthy(Get(opts, "plainFiles")), "-f")
                 \o Push(Truthy(Get(opts, "directories")), "-d")
                 \o Push(Truthy(Get(opts, "allTypes")), "-a")
                 \o Push(Truthy(Get(opts, "exist")),
                         "--exist " \o EscTpl(patterns))
                 \o Push(Truthy(Get(opts, "notExist")),
                         "--not-exist " \o EscTpl(patterns))
         IN IF existanceSpecified /\ commandSpecified
            THEN raw(Str(JoinSp(cmd \o <<"&& " \o ToStr(Get(opts, "command"))>>)))
            ELSE IF ~existanceSpecified /\ commandSpecified
            THEN raw(Str(JoinSp(cmd \o <<JoinStr(Get(opts, "command")),
                                         EscJoin(patterns)>>)))
            ELSE raw(Str(JoinSp(cmd)))

glob(patterns, opts) ==
    IF ~Truthy(patterns) THEN fail("glob() requires patterns argument")
    ELSE LET existanceSpecified ==
                 Truthy(Get(opts, "exist")) \/ Truthy(Get(opts, "notExist"))
             commandSpecified == Has(opts, "command")
             cmd ==
                 <<"glob">>
                 \o Push(Truthy(Get(opts, "plainFiles")), "-f")
                 \o Push(Truthy(Get(opts, "directories")), "-d")
                 \o Push(Truthy(Get(opts, "allTypes")), "-a")
                 \o Push(Truthy(Get(opts, "exist")),
                         "--exist " \o EscTpl(patterns))
                 \o Push(Truthy(Get(opts, "notExist")),
                         "--not-exist " \o EscTpl(patterns))
         IN IF existanceSpecified /\ commandSpecified
            THEN raw(Str(JoinSp(cmd \o <<"&& " \o ToStr(Get(opts, "command"))>>)))
            ELSE IF ~existanceSpecified /\ commandSpecified
            THEN raw(Str(JoinSp(cmd \o <<JoinStr(Get(opts, "command")),
                                         EscJoin(patterns)>>)))
            ELSE IF ~existanceSpecified /\ ~commandSpecified
            THEN fail("glob() opts argument requires exist, notExist, and/or command properties")
            ELSE raw(Str(JoinSp(cmd)))

HelpKeys == {"command"}

help(opts) ==
    raw(Str(JoinSp(<<"help">>
        \o Push(Has(opts, "command"), JoinStr(Get(opts, "command"))))))

RECURSIVE Times(_, _)
\* _times(n, () => c).join('')
Times(k, c) == IF k <= 0 THEN "" ELSE c \o Times(k - 1, c)

\* _inRange(v, lo, hi) for a number v.
inRange(v, lo, hi) == v.t = "number" /\ v.n >= lo /\ v.n < hi

JobsKeys == {"verbosity", "notRecursive", "jobNumber"}

\* jobs with the upper end of the verbosity's range moved up by one.
jobs_verbosityThrough4(opts) ==
    raw(Str(JoinSp(<<"jobs">>
        \o Push(Has(opts, "verbosity") /\ inRange(Get(opts, "verbosity"), 1, 5),
                "-" \o Times(Get(opts, "verbosity").n, "v"))
        \o Push(Truthy(Get(opts, "notRecursive")), "-r")
        \o Push(Has(opts, "jobNumber"), JoinStr(Get(opts, "jobNumber"))))))

jobs(opts) ==
    raw(Str(JoinSp(<<"jobs">>
        \o Push(Has(opts, "verbosity") /\ inRange(Get(opts, "verbosity"), 1, 4),
                "-" \o Times(Get(opts, "verbosity").n, "v"))
        \o Push(Truthy(Get(opts, "notRecursive")), "-r")
        \o Push(Has(opts, "jobNumber"), JoinStr(Get(opts, "jobNumber"))))))

KillKeys == {"jobNumber"}

kill(opts) ==
    raw(Str(JoinSp(<<"kill">>
        \o Push(Has(opts, "jobNumber"), JoinStr(Get(opts, "jobNumber"))))))

lcd(dir) == raw(Str("lcd " \o EscTpl(dir)))

LnKeys == {"symbolic"}

ln(existingFile, newLink, opts) ==
    IF ~Truthy(existingFile) THEN fail("ln() requires existingFile argument")
    ELSE IF ~Truthy(newLink) THEN fail("ln() requires newLink argument")
    ELSE raw(Str(JoinSp(<<"ln">>
            \o Push(Truthy(Get(opts, "symbolic")), "-s")
            \o <<EscJoin(existingFile), EscJoin(newLink)>>)))

local(command) ==
    IF ~Truthy(command) THEN fail("local() requires command argument")
    ELSE raw(Str("local " \o ToStr(command)))

lpwd == raw(Str("lpwd"))

ls == raw(Str("ls"))

pwd == raw(Str("pwd"))

PutKeys == {"remotePath"}

put(localPath, opts) ==
    IF ~Truthy(localPath) THEN fail("put() requires localPath argument")
    ELSE IF ~Truthy(Get(opts, "remotePath"))
        THEN raw(Str("put " \o EscTpl(localPath)))
    ELSE raw(Str("put " \o EscTpl(localPath) \o " -o "
                    \o EscTpl(Get(opts, "remotePath"))))

\* mv without the check of dest.
mv_noDestCheck(src, dest) ==
    IF ~Truthy(src) THEN fail("mv() requires src argument")
    ELSE raw(Str("mv " \o EscTpl(src) \o " " \o EscTpl(dest)))

mv(src, dest) ==
    IF ~Truthy(src) THEN fail("mv() requires src argument")
    ELSE IF ~Truthy(dest) THEN fail("mv() requires dest argument")
    ELSE raw(Str("mv " \o EscTpl(src) \o " " \o EscTpl(dest)))

\* rm(...files)
rm(files) ==
    IF Len(files) = 0 THEN fail("rm() requires files argument(s)")
    ELSE raw(Str("rm " \o EscAll(files)))

\* rmdir(...directories)
rmdir(directories) ==
    IF Len(directories) = 0 THEN fail("rmdir() requires directories argument(s)")
    ELSE raw(Str("rmdir " \o EscAll(directories)))

MirrorKeys ==
    {"upload", "localDir", "queue", "parallel", "filter", "pget", "options"}

\* mirror with the remote directory before the local one on an upload too.
mirror_remoteBeforeLocal(remoteDir, opts) ==
    LET upload == Get(opts, "upload")
        localDir == Get(opts, "localDir")
    IN IF ~Truthy(remoteDir) THEN fail("mirror() requires remoteDir argument")
       ELSE IF Truthy(upload) /\ ~Truthy(localDir)
           THEN fail("mirror(opts = {upload: true}) opts argument requires localDir property")
       ELSE raw(Str(JoinSp(
               (IF Truthy(Get(opts, "queue")) THEN <<"queue mirror">>
                ELSE <<"mirror">>)
               \o Push(Truthy(upload), "--reverse")
               \o Push(Has(opts, "parallel"),
                       "--parallel=" \o ToStr(Get(opts, "parallel")))
               \o Push(Has(opts, "filter"),
                       "--include='" \o ToStr(Get(opts, "filter")) \o "'")
               \o Push(Has(opts, "pget"),
                       "--use-pget-n=" \o ToStr(Get(opts, "pget")))
               \o Push(Has(opts, "options"), JoinStr(Get(opts, "options")))
               \o (IF Truthy(upload)
                   THEN <<EscTpl(remoteDir) \o " " \o EscTpl(localDir)>>
                   ELSE IF ~Truthy(localDir) THEN <<EscTpl(remoteDir)>>
                   ELSE <<EscTpl(remoteDir) \o " " \o EscTpl(localDir)>>))))

mirror(remoteDir, opts) ==
    LET upload == Get(opts, "upload")
        localDir == Get(opts, "localDir")
    IN IF ~Truthy(remoteDir) THEN fail("mirror() requires remoteDir argument")
       ELSE IF Truthy(upload) /\ ~Truthy(localDir)
           THEN fail("mirror(opts = {upload: true}) opts argument requires localDir property")
       ELSE raw(Str(JoinSp(
               (IF Truthy(Get(opts, "queue")) THEN <<"queue mirror">>
                ELSE <<"mirror">>)
               \o Push(Truthy(upload), "--reverse")
               \o Push(Has(opts, "parallel"),
                       "--parallel=" \o ToStr(Get(opts, "parallel")))
               \o Push(Has(opts, "filter"),
                       "--include='" \o ToStr(Get(opts, "filter")) \o "'")
               \o Push(Has(opts, "pget"),
                       "--use-pget-n=" \o ToStr(Get(opts, "pget")))
               \o Push(Has(opts, "options"), JoinStr(Get(opts, "options")))
               \o (IF Truthy(upload)
                   THEN <<EscTpl(localDir) \o " " \o EscTpl(remoteDir)>>
                   ELSE IF ~Truthy(localDir) THEN <<EscTpl(remoteDir)>>
                   ELSE <<EscTpl(remoteDir) \o " " \o EscTpl(localDir)>>))))

PgetKeys == {"queue", "n", "localPath"}
DefaultPgetN == 4

pget(remotePath, opts) ==
    IF ~Truthy(remotePath) THEN fail("pget() requires remotePath argument")
    ELSE raw(Str(JoinSp(
            (IF Truthy(Get(opts, "queue")) THEN <<"queue pget">> ELSE <<"pget">>)
            \o <<"-n " \o ToStr(JsOr(Get(opts, "n"), Num(DefaultPgetN))),
                 EscTpl(remotePath)>>
            \o Push(Truthy(Get(opts, "localPath")),
                    "-o " \o EscTpl(Get(opts, "localPath"))))))

\* this[cmd](args): the method named cmd called with the one argument a, its
\* other parameters left out. The names are those of the builders, of raw and
\* of fail; any other name stands for a property that is no method. A builder
\* whose first parameter is the options object finds none of its options on a
\* primitive a.
Dispatch(cmd, a) ==
    LET name == ToStr(cmd)
    IN CASE name = "alias" -> alias(a, Undef)
         [] name = "at" -> at(a)
         [] name = "attach" -> attach(a)
         [] name = "bookmark" -> bookmark(a, NoOpts(BookmarkKeys))
         [] name = "cache" -> cache(a, NoOpts(CacheKeys))
         [] name = "cat" -> cat(a)
         [] name = "cd" -> cd(a)
         [] name = "chmod" -> chmod(a, <<>>)
         [] name = "close" -> close(a)
         [] name = "cls" -> cls(NoOpts(ClsKeys))
         [] name = "command" ->
                IF ~Truthy(a) THEN fail("command() requires cmd argument")
                ELSE fail("command() requires args argument")
         [] name = "debug" -> debug(a, NoOpts(DebugKeys))
         [] name = "echo" -> echo(a)
         [] name = "edit" -> edit(a, NoOpts(EditKeys))
         [] name = "eval" -> eval(a, NoOpts(EvalKeys))
         [] name = "exit" -> exit(a, NoOpts(ExitKeys))
         [] name = "find" -> find(NoOpts(FindKeys))
         [] name = "get" -> get(a, NoOpts(GetKeys))
         [] name = "get1" -> get1(a, NoOpts(Get1Keys))
         [] name = "glob" -> glob(a, NoOpts(GlobKeys))
         [] name = "help" -> help(NoOpts(HelpKeys))
         [] name = "jobs" -> jobs(NoOpts(JobsKeys))
         [] name = "kill" -> kill(NoOpts(KillKeys))
         [] name = "lcd" -> lcd(a)
         [] name = "ln" -> ln(a, Undef, NoOpts(LnKeys))
         [] name = "local" -> local(a)
         [] name = "lpwd" -> lpwd
         [] name = "ls" -> ls
         [] name = "pwd" -> pwd
         [] name = "put" -> put(a, NoOpts(PutKeys))
         [] name = "mv" -> mv(a, Undef)
         [] name = "rm" -> rm(<<a>>)
         [] name = "rmdir" -> rmdir(<<a>>)
         [] name = "mirror" -> mirror(a, NoOpts(MirrorKeys))
         [] name = "pget" -> pget(a, NoOpts(PgetKeys))
         [] name = "raw" -> raw(a)
         [] name = "fail" -> fail(ToStr(a))
         [] OTHER -> typeErrorOn(cmds, "this[cmd] is not a function")

\* _last(array)
lastOf(q) == IF Len(q) = 0 THEN Undef ELSE Str(q[Len(q)])

command(cmd, args) ==
    IF ~Truthy(cmd) THEN fail("command() requires cmd argument")
    ELSE IF ~Truthy(args) THEN fail("command() requires args argument")
    ELSE LET r == Dispatch(cmd, args)
         IN IF r.threw THEN r
            ELSE IF r.ret = "undefined"
                THEN typeErrorOn(r.cmds, "Cannot read property 'cmds' of undefined")
            ELSE rawOn(r.cmds, Str("command " \o ToStr(lastOf(r.cmds))))

\* execCmdString with the queued commands put before the preamble.
execCmdString_queueFirst(extraCmds) ==
    Join(cmds
            \o baseCmd
            \o (IF extraCmds.t = "string" THEN <<extraCmds.s>>
                ELSE IF extraCmds.t = "array" THEN extraCmds.a
                ELSE <<>>),
         ";")

\* exec(extraCmds): the command string, built before the queue is emptied.
\* extraCmds is undefined, a string, or an array of strings (a sequence).
execCmdString(extraCmds) ==
    Join(baseCmd
            \o (IF extraCmds.t = "string" THEN <<extraCmds.s>>
                ELSE IF extraCmds.t = "array" THEN extraCmds.a
                ELSE <<>>)
            \o cmds,
         ";")

\* execSpawn with the working directory changed inside the command string.
execSpawn_cwdInString(extraCmds) ==
    [ command |-> "lftp",
      args |-> <<"-c",
                 (IF Has(spawnOptions, "cwd")
                  THEN "lcd " \o ToStr(Get(spawnOptions, "cwd")) \o ";"
                  ELSE "")
                     \o execCmdString(extraCmds)>>,
      opts |-> spawnOptions ]

\* this.spawn('lftp', ['-c', cmdString], this.spawnOptions)
execSpawn(extraCmds) ==
    [ command |-> "lftp",
      args |-> <<"-c", execCmdString(extraCmds)>>,
      opts |-> spawnOptions ]

\* this.cmds after exec, whether the call of this.spawn returned a process or
\* threw: this.cmds = [] comes before the call, and nothing is put back.
\* This one restores the queue when the call of this.spawn throws.
execCmds_restoredOnThrow(spawnThrew) == IF spawnThrew THEN cmds ELSE <<>>

\* This one drops the oldest entry only.
execCmds_shift(spawnThrew) == IF Len(cmds) = 0 THEN <<>> ELSE Tail(cmds)

\* this.cmds = [] in exec, before the call of this.spawn.
execCmds(spawnThrew) == <<>>

----------------------------------------------------------------------------
(* The promise of exec and the listeners on the process. stdout and stderr *)
(* are the arrays of the chunks received; promise is "pending", "resolved" *)
(* or "rejected" and value what it settled with; log is the events the     *)
(* process has emitted, in the order of their arrival.                     *)

\* No exec has been called, or the caller has gone on after it.
NoProcess ==
    [stdout |-> <<>>, stderr |-> <<>>, promise |-> "none", value |-> <<>>,
     log |-> <<>>]

\* new Promise(...) in exec: two empty arrays, nothing settled.
execPromise == [NoProcess EXCEPT !.promise = "pending"]

\* settle that lets a later resolve or reject replace the outcome.
settle_lastWins(p, how, v) == [p EXCEPT !.promise = how, !.value = v]

\* resolve(v) or reject(v): the first call settles the promise, a later one
\* does nothing.
settle(p, how, v) ==
    IF p.promise = "pending" THEN [p EXCEPT !.promise = how, !.value = v]
    ELSE p

\* The listener of stdout's 'data' with the chunk put before the others.
stdoutOnData_unshift(p, res) == [p EXCEPT !.stdout = <<res>> \o @]

\* lftp.stdout.on('data', (res) => { stdout.push(res) })
stdoutOnData(p, res) == [p EXCEPT !.stdout = Append(@, res)]

\* lftp.stderr.on('data', (res) => { stderr.push(res) })
stderrOnData(p, res) == [p EXCEPT !.stderr = Append(@, res)]

\* lftp.on('error', () => reject({error: stderr.join('')}))
onError(p) == settle(p, "rejected", [error |-> Join(p.stderr, "")])

\* lftp.on('close', () => resolve({error: ..., data: ...}))
onClose(p) ==
    settle(p, "resolved",
           [error |-> Join(p.stderr, ""), data |-> Join(p.stdout, "")])

----------------------------------------------------------------------------
(* Inputs.                                                                 *)

\* The characters of the strings handed to the escaper: safe ones (letters,
\* a digit, slash, dot, dash), the statement separator, and special ones.
EscChars ==
    {"a", "Z", "7", "/", ".", "-", ";", " ", "\t", "\"", "'", "$", Backquote,
     "[", "]", "\\"}

RECURSIVE StringsUpTo(_)
StringsUpTo(k) ==
    IF k = 0 THEN {""}
    ELSE LET S == StringsUpTo(k - 1)
         IN S \cup {s \o c : s \in S, c \in EscChars}

\* What escapeShell and _escapeShell are called with.
EscapeArgs ==
    {Str(s) : s \in StringsUpTo(MaxLen)}
        \cup {Undef, Bool(TRUE), Bool(FALSE)} \cup {Num(k) : k \in 0..MaxNum}

\* The options bags new LFTP is called with. timeout, retryInterval and
\* retryIntervalMultiplier are given together or not at all.
TimingVals ==
    { [timeout |-> Absent, retryInterval |-> Absent,
       retryIntervalMultiplier |-> Absent],
      [timeout |-> Num(5), retryInterval |-> Num(2),
       retryIntervalMultiplier |-> Num(2)] }

CtorBags ==
    { [ host |-> h, username |-> u, password |-> p, requiresPassword |-> rp,
        protocol |-> pr, port |-> po, escape |-> e, retries |-> r,
        timeout |-> tm.timeout, retryInterval |-> tm.retryInterval,
        retryIntervalMultiplier |-> tm.retryIntervalMultiplier,
        autoConfirm |-> ac, cwd |-> cw ] :
        h \in {Absent, Str("[::1]")},
        u \in {Absent, Str("u$")},
        p \in {Absent, Str(""), Str("p w")},
        rp \in {Absent, Bool(TRUE), Bool(FALSE)},
        pr \in {Absent, Str("ftp"), Str("sftp"), Str("ftps"), Str("FTP"),
                Str("http")},
        po \in {Absent, Num(0), Num(21)},
        e \in {Absent, Bool(FALSE)},
        r \in {Absent} \cup {Num(k) : k \in 0..MaxNum},
        tm \in TimingVals,
        ac \in {Absent, Bool(TRUE), Bool(FALSE)},
        cw \in {Absent, Str("d")} }

\* The valid bags that set the escape mode and the working directory only.
EscBags ==
    { b \in CtorBags :
        /\ b.host = Str("[::1]") /\ b.username = Str("u$") /\ b.password = Str("p w")
        /\ b.requiresPassword = Absent /\ b.protocol = Absent /\ b.port = Absent
        /\ b.retries = Absent /\ b.timeout = Absent /\ b.autoConfirm = Absent }

\* The options bags of the instance: one with escaping left on and a working
\* directory, one with escaping off and no working directory.
MainBags ==
    { b \in EscBags :
        \/ b.escape = Absent /\ b.cwd = Str("d")
        \/ b.escape = Bool(FALSE) /\ b.cwd = Absent }

\* last before any method is called. op: the method, args: its arguments,
\* threw, err, msg, ret: how the call ended, before: the queue it found,
\* afterExec: whether the call before it was exec, spawn: the calls of
\* this.spawn it made. Between two calls op is "idle".
NoCall ==
    [ op |-> "new", args |-> <<>>, threw |-> FALSE, err |-> "", msg |-> "",
      ret |-> "none", before |-> <<>>, afterExec |-> FALSE, spawn |-> <<>> ]
NoEsc == [in |-> Undef, fn |-> "none", out |-> Undef]

\* The history, not kept (on is FALSE). Where it is kept, appended is every
\* entry that was queued, in the order of the queueing, and procs is one
\* record for every call of exec, in the order of the calls: the entries
\* that were in the queue when exec was called, and whether the process is
\* "running" or "closed", or the call of spawn "failed".
NoHist == [on |-> FALSE, appended |-> <<>>, procs |-> <<>>]

\* The history after a builder has left the queue q.
Queueing(q) ==
    IF hist.on
    THEN [hist EXCEPT !.appended = @ \o SubSeq(q, Len(cmds) + 1, Len(q))]
    ELSE hist

\* The history after exec has called spawn.
Spawning(spawnThrew) ==
    IF hist.on
    THEN [hist EXCEPT !.procs =
            Append(@, [ entries |-> cmds,
                        state |-> IF spawnThrew THEN "failed" ELSE "running" ])]
    ELSE hist

----------------------------------------------------------------------------
(* The escaper's specification: an instance, and one call of escapeShell   *)
(* or of _escapeShell on it.                                               *)

InitEscape ==
    /\ \E b \in MainBags :
        /\ ctor = [opts |-> b, state |-> "ok", msg |-> ""]
        /\ options = ctorOptions(b)
        /\ spawnOptions = ctorSpawnOptions(b)
    /\ esc \in {[in |-> v, fn |-> "none", out |-> Undef] : v \in EscapeArgs}
    /\ cmds = <<>>
    /\ last = NoCall
    /\ lftp = NoProcess
    /\ hist = NoHist

CallEscapeShell ==
    /\ esc.fn = "none"
    /\ esc' = [esc EXCEPT !.fn = "escapeShell", !.out = escapeShell(esc.in)]
    /\ UNCHANGED <<ctor, options, spawnOptions, cmds, last, lftp, hist>>

Call_escapeShell ==
    /\ esc.fn = "none"
    /\ esc' = [esc EXCEPT !.fn = "_escapeShell", !.out = _escapeShell(esc.in)]
    /\ UNCHANGED <<ctor, options, spawnOptions, cmds, last, lftp, hist>>

NextEscape == CallEscapeShell \/ Call_escapeShell

SpecEscape == InitEscape /\ [][NextEscape]_vars

----------------------------------------------------------------------------
(* The constructor's specification: new LFTP(opts) on an options bag, then *)
(* baseCmd() on the instance when there is one.                            *)

InitCtor ==
    /\ ctor \in {[opts |-> b, state |-> "new", msg |-> ""] : b \in CtorBags}
    /\ options = NoOptions
    /\ spawnOptions = NoSpawnOptions
    /\ cmds = <<>>
    /\ esc = NoEsc
    /\ last = NoCall
    /\ lftp = NoProcess
    /\ hist = NoHist

\* new LFTP(opts): validateOptions throws, or the fields are set.
Construct ==
    /\ ctor.state = "new"
    /\ LET m == validateOptions(ctor.opts)
       IN IF m # ""
          THEN /\ ctor' = [ctor EXCEPT !.state = "threw", !.msg = m]
               /\ UNCHANGED <<options, spawnOptions, cmds>>
          ELSE /\ ctor' = [ctor EXCEPT !.state = "ok"]
               /\ options' = ctorOptions(ctor.opts)
               /\ spawnOptions' = ctorSpawnOptions(ctor.opts)
               /\ cmds' = <<>>
    /\ UNCHANGED <<esc, last, lftp, hist>>

\* lftp.baseCmd()
CallBaseCmd ==
    /\ ctor.state = "ok"
    /\ last.op = "new"
    /\ last' = [NoCall EXCEPT !.op = "baseCmd", !.ret = baseCmd,
                              !.before = cmds]
    /\ UNCHANGED <<esc, ctor, options, spawnOptions, cmds, lftp, hist>>

NextCtor == Construct \/ CallBaseCmd

SpecCtor == InitCtor /\ [][NextCtor]_vars

----------------------------------------------------------------------------
(* The builder's specification: an instance, and the calls of its          *)
(* builders, of raw and of exec, in any order.                             *)

\* An array of strings, as exec takes it.
Arr(a) == [t |-> "array", a |-> a]

\* An options object with the given keys, those of set set to their values.
Opts(keys, set) ==
    [k \in keys |-> IF k \in DOMAIN set THEN set[k] ELSE Absent]

\* A string argument that is left out, or given with a space in it.
ArgVals == {Undef, Str("f 1")}

\* The rest arguments of chmod, rm and rmdir.
FileLists == {<<>>, <<Str("f 1"), Str("g")>>}

Init ==
    /\ \E b \in MainBags :
        /\ ctor = [opts |-> b, state |-> "ok", msg |-> ""]
        /\ options = ctorOptions(b)
        /\ spawnOptions = ctorSpawnOptions(b)
    /\ cmds = <<>>
    /\ esc = NoEsc
    /\ last = NoCall
    /\ lftp = NoProcess
    /\ hist = NoHist

\* The caller is between two calls: the instance is new, or the caller has
\* taken the result of the call before.
Idle == last.op \in {"new", "idle"}

\* One call of the builder op with the arguments args, which did r.
Call(op, args, r) ==
    /\ Idle
    /\ Len(cmds) < MaxQueue
    /\ hist.on => Len(hist.appended) + Len(r.cmds) - Len(cmds) <= MaxAppended
    /\ hist' = Queueing(r.cmds)
    /\ cmds' = r.cmds
    /\ last' = [ op |-> op, args |-> args, threw |-> r.threw, err |-> r.err,
                 msg |-> r.msg, ret |-> r.ret, before |-> cmds,
                 afterExec |-> last.afterExec, spawn |-> <<>> ]
    /\ options' = r.options
    /\ UNCHANGED <<esc, ctor, spawnOptions, lftp>>

\* The caller takes what the call returned or threw and goes on: the record
\* of the call is dropped, but for whether it was exec. After exec the caller
\* has awaited the promise; the process is followed no further.
Return ==
    /\ ~Idle
    /\ last' = [NoCall EXCEPT !.op = "idle", !.afterExec = (last.op = "exec")]
    /\ lftp' = NoProcess
    /\ UNCHANGED <<esc, ctor, options, spawnOptions, cmds, hist>>

CallRaw == \E cmd \in {Num(1), Str("cmd1")} : Call("raw", <<cmd>>, raw(cmd))

CallAlias ==
    \E a \in {<<Undef, Undef>>, <<Str("f 1"), Str("g")>>} :
        Call("alias", a, alias(a[1], a[2]))

CallAt == \E time \in ArgVals : Call("at", <<time>>, at(time))

CallAttach == \E pid \in {Undef, Num(1)} : Call("attach", <<pid>>, attach(pid))

CallBookmark ==
    \E subCmd \in {Undef, Str("add"), Str("del"), Str("import")},
       opts \in { NoOpts(BookmarkKeys),
                  Opts(BookmarkKeys, [name |-> Str("f 1"), loc |-> Str("g"),
                                      type |-> Str("t")]) } :
        Call("bookmark", <<subCmd, opts>>, bookmark(subCmd, opts))

CallCache ==
    \E subCmd \in {Undef, Str("size"), Str("expire")},
       opts \in { NoOpts(CacheKeys),
                  Opts(CacheKeys, [n |-> Num(1)]),
                  Opts(CacheKeys, [lim |-> Num(1), n |-> Num(1),
                                   unit |-> Str("s")]) } :
        Call("cache", <<subCmd, opts>>, cache(subCmd, opts))

CallCat == \E path \in ArgVals : Call("cat", <<path>>, cat(path))

CallCd == \E dir \in ArgVals : Call("cd", <<dir>>, cd(dir))

CallChmod ==
    \E mode \in {Undef, Num(7)}, files \in FileLists :
        Call("chmod", <<mode, files>>, chmod(mode, files))

CallClose == \E all \in {Bool(TRUE)} : Call("close", <<all>>, close(all))

CallCls ==
    \E opts \in { Opts(ClsKeys, [singleColumn |-> Bool(TRUE),
                                 dirsFirst |-> Bool(TRUE)]) } :
        Call("cls", <<opts>>, cls(opts))

CallCommand ==
    \E cmd \in {Undef, Str("cd"), Str("exit")}, args \in {Undef, Str("bg")} :
        Call("command", <<cmd, args>>, command(cmd, args))

CallDebug ==
    \E level \in {Undef, Num(1), Str("on")},
       opts \in { Opts(DebugKeys, [truncate |-> Bool(TRUE),
                                   outputFile |-> Str("f 1")]) } :
        Call("debug", <<level, opts>>, debug(level, opts))

CallEcho == \E str \in {Str("f 1")} : Call("echo", <<str>>, echo(str))

CallEdit ==
    \E file \in ArgVals,
       opts \in { Opts(EditKeys, [keepTempFile |-> Bool(TRUE),
                                  tempFileLocation |-> Str("t d")]) } :
        Call("edit", <<file, opts>>, edit(file, opts))

CallEval ==
    \E args \in ArgVals, opts \in {Opts(EvalKeys, [format |-> Str("x")])} :
        Call("eval", <<args, opts>>, eval(args, opts))

CallExit ==
    \E subCmd \in {Undef, Str("kill")},
       opts \in {Opts(ExitKeys, [code |-> Num(1)])} :
        Call("exit", <<subCmd, opts>>, exit(subCmd, opts))

CallFind ==
    \E opts \in { Opts(FindKeys, [maxScanDepth |-> Num(1),
                                  longListing |-> Bool(TRUE),
                                  directory |-> Str("f 1")]) } :
        Call("find", <<opts>>, find(opts))

CallGet ==
    \E remotePath \in ArgVals,
       opts \in { Opts(GetKeys, [continue |-> Bool(TRUE),
                                 localPath |-> Str("g")]) } :
        Call("get", <<remotePath, opts>>, get(remotePath, opts))

CallGet1 ==
    \E remoteFile \in ArgVals,
       opts \in { Opts(Get1Keys, [destFileName |-> Str("g"),
                                  srcRegion |-> Num(1)]) } :
        Call("get1", <<remoteFile, opts>>, get1(remoteFile, opts))

CallGlob ==
    \E patterns \in {Undef, Str("*")},
       opts \in { NoOpts(GlobKeys),
                  Opts(GlobKeys, [exist |-> Bool(TRUE), command |-> Str("ls")]) } :
        Call("glob", <<patterns, opts>>, glob(patterns, opts))

CallHelp ==
    \E opts \in {Opts(HelpKeys, [command |-> Str("ls")])} :
        Call("help", <<opts>>, help(opts))

CallJobs ==
    \E opts \in { Opts(JobsKeys, [verbosity |-> Num(2),
                                  notRecursive |-> Bool(TRUE),
                                  jobNumber |-> Num(1)]) } :
        Call("jobs", <<opts>>, jobs(opts))

CallKill ==
    \E opts \in {Opts(KillKeys, [jobNumber |-> Num(1)])} :
        Call("kill", <<opts>>, kill(opts))

CallLcd == \E dir \in {Str("f 1")} : Call("lcd", <<dir>>, lcd(dir))

CallLn ==
    \E existingFile \in ArgVals, newLink \in ArgVals,
       opts \in {Opts(LnKeys, [symbolic |-> Bool(TRUE)])} :
        Call("ln", <<existingFile, newLink, opts>>,
             ln(existingFile, newLink, opts))

CallLocal == \E c \in ArgVals : Call("local", <<c>>, local(c))

CallLpwd == Call("lpwd", <<>>, lpwd)

CallLs == Call("ls", <<>>, ls)

CallPwd == Call("pwd", <<>>, pwd)

CallPut ==
    \E localPath \in ArgVals,
       opts \in {Opts(PutKeys, [remotePath |-> Str("g")])} :
        Call("put", <<localPath, opts>>, put(localPath, opts))

CallMv ==
    \E src \in ArgVals, dest \in ArgVals : Call("mv", <<src, dest>>, mv(src, dest))

CallRm == \E files \in FileLists : Call("rm", <<files>>, rm(files))

CallRmdir == \E dirs \in FileLists : Call("rmdir", <<dirs>>, rmdir(dirs))

CallMirror ==
    \E remoteDir \in ArgVals,
       opts \in { Opts(MirrorKeys, [upload |-> Bool(TRUE)]),
                  Opts(MirrorKeys, [upload |-> Bool(TRUE), localDir |-> Str("g")]),
                  Opts(MirrorKeys, [filter |-> Str("a b"), localDir |-> Str("g")]) } :
        Call("mirror", <<remoteDir, opts>>, mirror(remoteDir, opts))

CallPget ==
    \E remotePath \in ArgVals,
       opts \in {Opts(PgetKeys, [localPath |-> Str("g")])} :
        Call("pget", <<remotePath, opts>>, pget(remotePath, opts))

\* exec(extraCmds): the command string is built, the queue emptied, the
\* process spawned, the listeners set on it and the pending promise returned.
\* this.spawn is child_process.spawn: it returns the process, or it throws
\* (spawnThrew) and exec throws with it, after the queue was emptied and
\* before a promise is made.
CallExec ==
    \E extraCmds \in {Undef, Str("x1"), Arr(<<"x1", "x2">>)},
       spawnThrew \in BOOLEAN :
        /\ Idle
        /\ hist.on => Len(hist.procs) < MaxExecs
        /\ hist' = Spawning(spawnThrew)
        /\ cmds' = execCmds(spawnThrew)
        /\ last' = [ op |-> "exec", args |-> <<extraCmds>>,
                     threw |-> spawnThrew,
                     err |-> IF spawnThrew THEN "Error" ELSE "",
                     msg |-> IF spawnThrew THEN "spawn" ELSE "",
                     ret |-> IF spawnThrew THEN "none" ELSE "promise",
                     before |-> cmds,
                     afterExec |-> last.afterExec,
                     spawn |-> <<execSpawn(extraCmds)>> ]
        /\ lftp' = IF spawnThrew THEN NoProcess ELSE execPromise
        /\ UNCHANGED <<esc, ctor, options, spawnOptions>>

Next ==
    \/ CallRaw \/ CallAlias \/ CallAt \/ CallAttach \/ CallBookmark
    \/ CallCache \/ CallCat \/ CallCd \/ CallChmod \/ CallClose \/ CallCls
    \/ CallCommand \/ CallDebug \/ CallEcho \/ CallEdit \/ CallEval
    \/ CallExit \/ CallFind \/ CallGet \/ CallGet1 \/ CallGlob \/ CallHelp
    \/ CallJobs \/ CallKill \/ CallLcd \/ CallLn \/ CallLocal \/ CallLpwd
    \/ CallLs \/ CallPwd \/ CallPut \/ CallMv \/ CallRm \/ CallRmdir
    \/ CallMirror \/ CallPget \/ CallExec \/ Return

Spec == Init /\ [][Next]_vars

----------------------------------------------------------------------------
(* Helpers of the properties.                                              *)

StartsWith(s, p) == Len(s) >= Len(p) /\ SubSeq(s, 1, Len(p)) = p

CharsOf(s) == {CharAt(s, i) : i \in 1..Len(s)}

\* The characters the escaper is specified to escape.
ListedSpecials == {"\"", " ", "\t", "\n", "\r", "\f", "'", "$", Backquote, "[", "]", "\\"}

\* The characters the specification calls safe.
SafeChars ==
    CharsOf("abcdefghijklmnopqrstuvwxyz") \cup CharsOf("ABCDEFGHIJKLMNOPQRSTUVWXYZ")
        \cup CharsOf("0123456789") \cup {"/", ".", "-"}

RECURSIVE CountListed(_)
\* How many characters of s are listed as special.
CountListed(s) ==
    IF s = "" THEN 0
    ELSE (IF CharAt(s, 1) \in ListedSpecials THEN 1 ELSE 0)
            + CountListed(SubSeq(s, 2, Len(s)))

RECURSIVE Unescape(_)
\* s with every escaping backslash removed: a backslash is dropped and the
\* character after it kept as it is.
Unescape(s) ==
    IF s = "" THEN ""
    ELSE IF CharAt(s, 1) = "\\" /\ Len(s) >= 2
        THEN CharAt(s, 2) \o Unescape(SubSeq(s, 3, Len(s)))
    ELSE CharAt(s, 1) \o Unescape(SubSeq(s, 2, Len(s)))

RECURSIVE WellEscaped(_)
\* s is made of plain characters and of pairs: a backslash, then a special
\* character.
WellEscaped(s) ==
    IF s = "" THEN TRUE
    ELSE IF CharAt(s, 1) = "\\"
        THEN Len(s) >= 2 /\ CharAt(s, 2) \in ListedSpecials
                /\ WellEscaped(SubSeq(s, 3, Len(s)))
    ELSE CharAt(s, 1) \notin ListedSpecials /\ WellEscaped(SubSeq(s, 2, Len(s)))

\* The options bag lacks host, username or password, or carries a protocol
\* that is none of the three.
BagIsInvalid(b) ==
    \/ b.host = Absent
    \/ b.username = Absent
    \/ b.password = Absent
    \/ b.protocol \notin {Absent, Str("ftp"), Str("sftp"), Str("ftps")}

RECURSIVE SemiAppend(_, _)
\* The string s with the strings of q added to it in their order, a ';'
\* before each.
SemiAppend(s, q) ==
    IF Len(q) = 0 THEN s ELSE SemiAppend(s \o ";" \o Head(q), Tail(q))

\* The strings of q with a ';' between them.
SemiJoined(q) == SemiAppend(Head(q), Tail(q))

\* The extra commands an argument of exec stands for.
ExtrasOf(x) ==
    IF x.t = "string" THEN <<x.s>> ELSE IF x.t = "array" THEN x.a ELSE <<>>

\* The builders with required arguments.
RequiredBuilders ==
    {"at", "attach", "bookmark", "cache", "cat", "cd", "chmod", "command",
     "debug", "edit", "eval", "exit", "get", "get1", "glob", "ln", "local",
     "mirror", "mv", "pget", "put", "rm", "rmdir"}

\* The call of op with args leaves a required argument out: a parameter that
\* is not given, an empty list of files, or an options object without the
\* property its subcommand requires.
Omitted(op, args) ==
    CASE op \in {"at", "attach", "cat", "cd", "debug", "edit", "eval", "exit",
                 "get", "get1", "glob", "local", "pget", "put"} ->
            args[1] = Undef
      [] op \in {"ln", "mv", "command"} -> args[1] = Undef \/ args[2] = Undef
      [] op = "chmod" -> args[1] = Undef \/ args[2] = <<>>
      [] op \in {"rm", "rmdir"} -> args[1] = <<>>
      [] op = "bookmark" ->
            \/ args[1] = Undef
            \/ args[1] \in {Str("add"), Str("del")} /\ args[2].name = Absent
            \/ args[1] = Str("import") /\ args[2].type = Absent
      [] op = "cache" ->
            \/ args[1] = Undef
            \/ args[1] = Str("size") /\ args[2].lim = Absent
            \/ args[1] = Str("expire")
                /\ (args[2].n = Absent \/ args[2].unit = Absent)
      [] op = "mirror" ->
            \/ args[1] = Undef
            \/ args[2].upload = Bool(TRUE) /\ args[2].localDir = Absent
      [] OTHER -> FALSE

----------------------------------------------------------------------------
(* Properties of the builders and of exec (Spec).                          *)

C2_ExecJoinsPreambleAndQueue ==
    (last.op = "exec" /\ last.args = <<Undef>>) =>
        /\ Len(last.spawn) = 1
        /\ last.spawn[1].args[2] = SemiAppend(SemiJoined(baseCmd), last.before)
        /\ cmds = <<>>
        /\ last.afterExec => last.spawn[1].args[2] = SemiJoined(baseCmd)

\* exec() has been called on a queue of two entries.
C2_Witness ==
    /\ last.op = "exec"
    /\ last.args = <<Undef>>
    /\ last.before = <<"cmd1", "ls">>
    /\ cmds = <<>>

\* C3: every exec(extra) calls spawn once, with 'lftp' and the two arguments
\* '-c' and one string: the preamble, then the extra commands (one string, or
\* the elements of an array in their order), then the queued commands in
\* their order, joined by ';'. The working directory is a spawn option and is
\* no part of the string.
C3_ExecSpawnsLftpWithOneString ==
    last.op = "exec" =>
        /\ Len(last.spawn) = 1
        /\ last.spawn[1].command = "lftp"
        /\ Len(last.spawn[1].args) = 2
        /\ last.spawn[1].args[1] = "-c"
        /\ last.spawn[1].args[2] =
                SemiJoined(baseCmd \o ExtrasOf(last.args[1]) \o last.before)
        /\ last.spawn[1].opts = [cwd |-> ctor.opts.cwd]

\* exec has been called with an array of two extra commands on a queue of two
\* entries, by an instance that has a working directory.
C3_Witness ==
    /\ last.op = "exec"
    /\ last.args = <<Arr(<<"x1", "x2">>)>>
    /\ Len(last.before) = 2
    /\ last.spawn[1].opts = [cwd |-> Str("d")]

----------------------------------------------------------------------------
(* Properties of the constructor (SpecCtor).                               *)

\* C4: construction fails, and leaves no instance, whenever the options lack
\* host, username or password or carry a protocol other than ftp, sftp and
\* ftps; for every other options bag it succeeds, with an empty queue.
C4_ConstructionFailsExactlyOnInvalidOptions ==
    ctor.state # "new" =>
        IF BagIsInvalid(ctor.opts)
        THEN ctor.state = "threw" /\ ctor.msg # "" /\ options = NoOptions
        ELSE ctor.state = "ok" /\ cmds = <<>> /\ options # NoOptions

\* Construction has failed for a bag that lacks only the password.
C4_Witness ==
    /\ ctor.state = "threw"
    /\ ctor.opts.host # Absent /\ ctor.opts.username # Absent
    /\ ctor.opts.password = Absent /\ ctor.opts.protocol = Str("ftps")

\* C5: with host and username and no password, construction succeeds when
\* requiresPassword is false and fails when it is absent or true.
C5_PasswordOptionalWhenNotRequired ==
    ( /\ ctor.state # "new"
      /\ ctor.opts.host # Absent /\ ctor.opts.username # Absent
      /\ ctor.opts.password = Absent
      /\ ctor.opts.protocol \in {Absent, Str("ftp"), Str("sftp"), Str("ftps")} )
    => IF ctor.opts.requiresPassword = Bool(FALSE)
       THEN ctor.state = "ok"
       ELSE ctor.state = "threw"

\* The protocol the claim of C6 expects: the given one lower-cased, or sftp.
ExpectedProtocol(b) ==
    IF b.protocol = Absent THEN "sftp" ELSE toLowerCase(b.protocol.s)

\* C6 as stated: the stored host is <protocol>://<host>:<port>, the port being
\* the given port, or 22 when none is given.
C6_HostUriUsesGivenPort ==
    ctor.state = "ok" =>
        options.host =
            Str(ExpectedProtocol(ctor.opts) \o "://" \o ctor.opts.host.s \o ":"
                \o (IF ctor.opts.port = Absent THEN "22"
                    ELSE NumStr(ctor.opts.port.n)))

\* C6 amended: the stored host is <protocol>://<host>:<port>, the port being
\* the given port when one is given and is not 0, and 22 when none is given
\* or the given port is 0, for every protocol.
C6_HostUriUsesNonZeroPort ==
    ctor.state = "ok" =>
        options.host =
            Str(ExpectedProtocol(ctor.opts) \o "://" \o ctor.opts.host.s \o ":"
                \o (IF ctor.opts.port = Absent \/ ctor.opts.port = Num(0)
                    THEN "22"
                    ELSE NumStr(ctor.opts.port.n)))

\* An ftp connection has been constructed without a port.
C6_Witness ==
    /\ ctor.state = "ok"
    /\ ctor.opts.protocol = Str("ftp") /\ ctor.opts.port = Absent
    /\ options.host = Str("ftp://[::1]:22")

\* C7: for retries an integer r >= 0 the preamble holds the statement
\* 'set net:max-retries r', r = 0 included, and the value is 1 only when
\* retries is not given.
C7_MaxRetriesIsConfiguredValue ==
    (ctor.state = "ok" /\ last.op = "baseCmd") =>
        \E i \in 1..Len(last.ret) :
            last.ret[i] =
                "set net:max-retries "
                    \o (IF ctor.opts.retries = Absent THEN "1"
                        ELSE NumStr(ctor.opts.retries.n))

\* What the escaper makes of v under the escape mode the bag asks for.
ExpectedEscaped(b, v) ==
    IF b.escape = Absent \/ b.escape = Bool(TRUE)
    THEN (IF v.t = "string" THEN ReplaceSpecial(v.s) ELSE "")
    ELSE ToStr(v)

\* C8: the preamble is, in this order, the auto-confirm statement (exactly
\* when the protocol is sftp and autoConfirm is true), the four set net:
\* statements, and last the open statement with the user and the password
\* escaped under the escape mode and the host URI as it is stored.
C8_PreambleOrder ==
    last.op = "baseCmd" =>
        LET b == ctor.opts
            auto == ExpectedProtocol(b) = "sftp" /\ b.autoConfirm = Bool(TRUE)
            k == IF auto THEN 1 ELSE 0
            pre == last.ret
        IN /\ Len(pre) = 5 + k
           /\ auto => pre[1] = "set sftp:auto-confirm yes"
           /\ ~auto => \A i \in 1..Len(pre) : pre[i] # "set sftp:auto-confirm yes"
           /\ StartsWith(pre[k + 1], "set net:max-retries ")
           /\ StartsWith(pre[k + 2], "set net:timeout ")
           /\ StartsWith(pre[k + 3], "set net:reconnect-interval-base ")
           /\ StartsWith(pre[k + 4], "set net:reconnect-interval-multiplier ")
           /\ pre[k + 5] =
                "open -u \"" \o ExpectedEscaped(b, b.username) \o "\",\""
                    \o ExpectedEscaped(b, b.password) \o "\" \""
                    \o options.host.s \o "\""

\* baseCmd() has returned six statements, the user and password escaped.
C8_Witness ==
    /\ last.op = "baseCmd"
    /\ Len(last.ret) = 6
    /\ last.ret[6] = "open -u \"u\\$\",\"p\\ w\" \"sftp://[::1]:22\""

----------------------------------------------------------------------------
(* Properties of the escaper (SpecEscape).                                 *)

\* C9: escapeShell gives '' for a value that is no string; for a string it
\* puts exactly one backslash before each double quote, whitespace, single
\* quote, dollar, backquote, bracket and backslash: the result is longer by
\* the number of those, and taking the backslashes out gives the argument.
C9_EscapeShellSinglePass ==
    esc.fn = "escapeShell" =>
        IF esc.in.t # "string" THEN esc.out = Str("")
        ELSE /\ esc.out.t = "string"
             /\ Len(esc.out.s) = Len(esc.in.s) + CountListed(esc.in.s)
             /\ WellEscaped(esc.out.s)
             /\ Unescape(esc.out.s) = esc.in.s

\* escapeShell has escaped a dollar, a backslash and a double quote.
C9_Witness ==
    /\ esc.fn = "escapeShell"
    /\ esc.in = Str("$\\\"")
    /\ esc.out = Str("\\$\\\\\\\"")

\* C10: escapeShell returns a string of safe characters (letters, digits,
\* slash, dot, dash) as it is, so escaping the result again changes nothing.
C10_SafeStringsUnchanged ==
    ( /\ esc.fn = "escapeShell"
      /\ esc.in.t = "string"
      /\ CharsOf(esc.in.s) \subseteq SafeChars )
    => /\ esc.out = esc.in
       /\ escapeShell(esc.out) = esc.out

\* escapeShell has been called on a string of three safe characters.
C10_Witness ==
    /\ esc.fn = "escapeShell"
    /\ esc.in = Str("a/.")
    /\ esc.out = Str("a/.")

\* C11: on an instance whose escape mode is false _escapeShell(v) is v itself
\* for every v, the values that are no strings included; on an instance whose
\* escape mode is true _escapeShell(v) is escapeShell(v).
C11_EscapeIfEnabledFollowsMode ==
    esc.fn = "_escapeShell" =>
        /\ options.escape = Bool(FALSE) => esc.out = esc.in
        /\ options.escape = Bool(TRUE) => esc.out = escapeShell(esc.in)
        /\ options.escape \in {Bool(FALSE), Bool(TRUE)}

\* _escapeShell has handed a number back on an instance with escaping off.
C11_Witness ==
    /\ esc.fn = "_escapeShell"
    /\ options.escape = Bool(FALSE)
    /\ esc.in = Num(1)
    /\ esc.out = Num(1)

----------------------------------------------------------------------------
(* Properties of what the builders queue (Spec).                           *)

\* p occurs in s.
Contains(s, p) ==
    \E i \in 1..(Len(s) - Len(p) + 1) : SubSeq(s, i, i + Len(p) - 1) = p

\* The last call queued an entry.
Queued == ~last.threw /\ Len(cmds) = Len(last.before) + 1

\* The entry the last call queued.
Entry == cmds[Len(cmds)]

\* The strings among the values vs.
StringsOf(vs) == {v \in vs : v.t = "string"}

\* The file paths, names and free-text arguments that the call of op with
\* args puts in its entry (the arguments that are flags, numbers, names of
\* subcommands or lftp commands are none of them).
FreeText(op, args) ==
    StringsOf(
        CASE op \in {"at", "cat", "cd", "lcd", "echo", "local"} -> {args[1]}
          [] op \in {"alias", "ln", "mv"} -> {args[1], args[2]}
          [] op = "bookmark" ->
                IF args[1] = Str("add") THEN {args[2].name, args[2].loc}
                ELSE IF args[1] = Str("del") THEN {args[2].name}
                ELSE IF args[1] = Str("import") THEN {args[2].type}
                ELSE {}
          [] op = "debug" -> {args[2].outputFile}
          [] op = "edit" -> {args[1], args[2].tempFileLocation}
          [] op = "find" -> {args[1].directory}
          [] op = "get" -> {args[1], args[2].base, args[2].localPath}
          [] op = "get1" -> {args[1], args[2].destFileName}
          [] op = "glob" -> {args[1]}
          [] op = "mirror" -> {args[1], args[2].localDir, args[2].filter}
          [] op = "pget" -> {args[1], args[2].localPath}
          [] op = "put" -> {args[1], args[2].remotePath}
          [] op = "chmod" -> {args[2][i] : i \in 1..Len(args[2])}
          [] op \in {"rm", "rmdir"} -> {args[1][i] : i \in 1..Len(args[1])}
          [] OTHER -> {})

\* C12: with escaping on, every file path, name or free-text argument that a
\* builder puts in the entry it queues is there as _escapeShell gives it: a
\* backslash before each of its special characters. This is said of every
\* builder, of the temporary directory of edit (-o), of the include filter
\* of mirror and of the command of local too.
C12_FreeTextArgumentsAreEscaped ==
    (Queued /\ options.escape = Bool(TRUE)) =>
        \A v \in FreeText(last.op, last.args) :
            Contains(Entry, ReplaceSpecial(v.s))

\* The builders: every method that queues a subcommand.
Builders ==
    {"raw", "alias", "at", "attach", "bookmark", "cache", "cat", "cd", "chmod",
     "close", "cls", "command", "debug", "echo", "edit", "eval", "exit",
     "find", "get", "get1", "glob", "help", "jobs", "kill", "lcd", "ln",
     "local", "lpwd", "ls", "pwd", "put", "mv", "rm", "rmdir", "mirror",
     "pget"}

\* C13: every call of a builder that ends without an error returns the
\* instance it was called on, so that a further builder can be called on the
\* result; this is said of every builder, of exit too.
C13_BuildersReturnTheInstance ==
    (last.op \in Builders /\ ~last.threw) => last.ret = "this"

\* C14: one call of a builder, of command(cmd, args) too, makes the queue
\* longer by no entry or by one, never by more, and leaves the entries that
\* were queued before it where and as they were.
C14_BuilderAppendsAtMostOne ==
    last.op \in Builders =>
        /\ Len(cmds) \in {Len(last.before), Len(last.before) + 1}
        /\ SubSeq(cmds, 1, Len(last.before)) = last.before

----------------------------------------------------------------------------
(* One builder with all its options: the builder is called, with every     *)
(* combination of its options, on a queue that raw has filled; exec runs    *)
(* what is queued.                                                          *)

\* The queue holds what raw has put there and nothing else.
RawOnly == \A i \in 1..Len(cmds) : cmds[i] = "cmd1"

\* A flag of an options object: not given, true or false.
Flag == {Absent, Bool(TRUE), Bool(FALSE)}

\* A string as the instance's escape mode leaves it in an entry.
Escaped(v) == IF options.escape = Bool(TRUE) THEN ReplaceSpecial(v.s) ELSE v.s

\* The string t after a space when c holds, nothing otherwise.
Opt(c, t) == IF c THEN " " \o t ELSE ""

CallGetOpts ==
    \E remotePath \in ArgVals,
       c \in Flag, E \in {Absent, Bool(TRUE)}, e \in {Absent, Bool(TRUE)},
       a \in {Absent, Bool(TRUE)}, base \in {Absent, Str("b 1")},
       localPath \in {Absent, Str("g")} :
        /\ RawOnly
        /\ LET opts == [ continue |-> c, deleteSrcOnSuccess |-> E,
                         deleteTargetBefore |-> e, asciiMode |-> a,
                         base |-> base, localPath |-> localPath ]
           IN Call("get", <<remotePath, opts>>, get(remotePath, opts))

NextGet == CallRaw \/ CallGetOpts \/ CallExec \/ Return

SpecGet == Init /\ [][NextGet]_vars

\* C15: get(remotePath, opts) with a remotePath queues one entry: 'get', the
\* flags of the options that are set in the order -c (continue), -E
\* (deleteSrcOnSuccess), -e (deleteTargetBefore), -a (asciiMode), '-O <base>',
\* then the remote path, then '-o <localPath>' last, with one space between
\* them, whatever the combination of the options.
C15_GetEntryOrder ==
    (last.op = "get" /\ last.args[1] # Undef) =>
        LET o == last.args[2]
        IN /\ ~last.threw
           /\ cmds = Append(last.before,
                    "get"
                        \o Opt(o.continue = Bool(TRUE), "-c")
                        \o Opt(o.deleteSrcOnSuccess = Bool(TRUE), "-E")
                        \o Opt(o.deleteTargetBefore = Bool(TRUE), "-e")
                        \o Opt(o.asciiMode = Bool(TRUE), "-a")
                        \o Opt(o.base # Absent, "-O " \o Escaped(o.base))
                        \o " " \o Escaped(last.args[1])
                        \o Opt(o.localPath # Absent,
                               "-o " \o Escaped(o.localPath)))

\* get has been called with every option set on a queue of one entry, on an
\* instance that escapes.
C15_Witness ==
    /\ last.op = "get"
    /\ cmds = <<"cmd1", "get -c -E -e -a -O b\\ 1 f\\ 1 -o g">>

CallMirrorOpts ==
    \E remoteDir \in ArgVals,
       upload \in Flag, localDir \in {Absent, Str("l d")}, queue \in Flag,
       parallel \in {Absent, Num(2)}, filter \in {Absent, Str("a b")},
       n \in {Absent, Num(3)} :
        /\ RawOnly
        /\ LET opts == [ upload |-> upload, localDir |-> localDir,
                         queue |-> queue, parallel |-> parallel,
                         filter |-> filter, pget |-> n, options |-> Absent ]
           IN Call("mirror", <<remoteDir, opts>>, mirror(remoteDir, opts))

NextMirror == CallRaw \/ CallMirrorOpts \/ CallExec \/ Return

SpecMirror == Init /\ [][NextMirror]_vars

\* s ends with p.
EndsWith(s, p) ==
    Len(s) >= Len(p) /\ SubSeq(s, Len(s) - Len(p) + 1, Len(s)) = p

\* C16: mirror(remoteDir, opts) with upload set and no localDir raises an
\* argument error and queues nothing; with upload and localDir it queues
\* 'mirror --reverse ... <localDir> <remoteDir>', the local directory before
\* the remote one; without upload the entry ends with '<remoteDir>', or with
\* '<remoteDir> <localDir>' when localDir is given; the entry starts with
\* 'queue mirror' when the queue option is set and with 'mirror' when it is
\* not.
C16_MirrorDirection ==
    (last.op = "mirror" /\ last.args[1] # Undef) =>
        LET o == last.args[2]
            up == o.upload = Bool(TRUE)
            head == IF o.queue = Bool(TRUE) THEN "queue mirror" ELSE "mirror"
            remote == Escaped(last.args[1])
        IN IF up /\ o.localDir = Absent
           THEN last.threw /\ last.err = "Error" /\ cmds = last.before
           ELSE /\ Queued
                /\ SubSeq(cmds, 1, Len(last.before)) = last.before
                /\ StartsWith(Entry, head \o (IF up THEN " --reverse " ELSE " "))
                /\ StartsWith(Entry, "queue mirror") <=> o.queue = Bool(TRUE)
                /\ Contains(Entry, "--reverse") <=> up
                /\ EndsWith(Entry,
                        IF up THEN " " \o Escaped(o.localDir) \o " " \o remote
                        ELSE IF o.localDir = Absent THEN " " \o remote
                        ELSE " " \o remote \o " " \o Escaped(o.localDir))
                /\ (~up /\ o.localDir = Absent) =>
                        ~Contains(Entry, Escaped(Str("l d")))

\* An upload with a local directory has been queued behind one entry by an
\* instance that escapes.
C16_Witness ==
    /\ last.op = "mirror"
    /\ last.args[2].upload = Bool(TRUE)
    /\ cmds = <<"cmd1", "queue mirror --reverse --parallel=2 l\\ d f\\ 1">>

CallGlobOpts ==
    \E patterns \in {Undef, Str("*"), Str("f 1")},
       f \in {Absent, Bool(TRUE)}, dd \in {Absent, Bool(TRUE)},
       a \in {Absent, Bool(TRUE)}, exist \in Flag, notExist \in Flag,
       c \in {Absent, Str("ls")} :
        /\ RawOnly
        /\ LET opts == [ plainFiles |-> f, directories |-> dd, allTypes |-> a,
                         exist |-> exist, notExist |-> notExist, command |-> c ]
           IN Call("glob", <<patterns, opts>>, glob(patterns, opts))

NextGlob == CallRaw \/ CallGlobOpts \/ CallExec \/ Return

SpecGlob == Init /\ [][NextGlob]_vars

CallJobsOpts ==
    \E verbosity \in {Absent} \cup {Num(k) : k \in 0..(MaxNum + 1)},
       notRecursive \in Flag,
       jobNumber \in {Absent} \cup {Num(k) : k \in 0..MaxNum} :
        /\ RawOnly
        /\ LET opts == [ verbosity |-> verbosity, notRecursive |-> notRecursive,
                         jobNumber |-> jobNumber ]
           IN Call("jobs", <<opts>>, jobs(opts))

NextJobs == CallRaw \/ CallJobsOpts \/ CallExec \/ Return

SpecJobs == Init /\ [][NextJobs]_vars

\* C18: jobs(opts) queues 'jobs' with the verbosity flag '-v', '-vv' or
\* '-vvv' when the verbosity is 1, 2 or 3 and with no verbosity flag when it
\* is 0, when it is 4 or more and when it is not given; '-r' and the number
\* of the job come after it, in that order.
C18_JobsVerbosityFlag ==
    last.op = "jobs" =>
        LET o == last.args[1]
            v == o.verbosity
        IN /\ ~last.threw
           /\ cmds = Append(last.before,
                    "jobs"
                        \o (IF v = Num(1) THEN " -v"
                            ELSE IF v = Num(2) THEN " -vv"
                            ELSE IF v = Num(3) THEN " -vvv"
                            ELSE "")
                        \o Opt(o.notRecursive = Bool(TRUE), "-r")
                        \o Opt(o.jobNumber # Absent, Digits[o.jobNumber.n + 1]))

\* jobs has been called with a verbosity of 4, with -r and a job number.
C18_Witness ==
    /\ last.op = "jobs"
    /\ last.args[1].verbosity = Num(MaxNum + 1)
    /\ MaxNum + 1 >= 4
    /\ cmds = <<"cmd1", "jobs -r 2">>

----------------------------------------------------------------------------
(* The executor with its process: after exec the process emits chunks on   *)
(* stdout and stderr, 'error' at most once, and 'close' as its last event; *)
(* the listeners that exec set run on each of them.                        *)

\* The process of the exec just called can emit one more event.
Running ==
    /\ last.op = "exec"
    /\ lftp.promise # "none"
    /\ Len(lftp.log) < MaxEvents
    /\ \A i \in 1..Len(lftp.log) : lftp.log[i].ev # "close"

\* The process p after the event ev with the chunk res was logged.
Logged(p, ev, res) == [p EXCEPT !.log = Append(@, [ev |-> ev, chunk |-> res])]

OnStdoutData ==
    \E res \in {"a", "b"} :
        /\ Running
        /\ lftp' = Logged(stdoutOnData(lftp, res), "stdout", res)
        /\ UNCHANGED <<esc, ctor, options, spawnOptions, cmds, last, hist>>

OnStderrData ==
    \E res \in {"x", "y"} :
        /\ Running
        /\ lftp' = Logged(stderrOnData(lftp, res), "stderr", res)
        /\ UNCHANGED <<esc, ctor, options, spawnOptions, cmds, last, hist>>

OnError ==
    /\ Running
    /\ \A i \in 1..Len(lftp.log) : lftp.log[i].ev # "error"
    /\ lftp' = Logged(onError(lftp), "error", "")
    /\ UNCHANGED <<esc, ctor, options, spawnOptions, cmds, last, hist>>

OnClose ==
    /\ Running
    /\ lftp' = Logged(onClose(lftp), "close", "")
    /\ UNCHANGED <<esc, ctor, options, spawnOptions, cmds, last, hist>>

NextExec ==
    \/ CallRaw \/ CallExec \/ OnStdoutData \/ OnStderrData \/ OnError
    \/ OnClose \/ Return

SpecExec == Init /\ [][NextExec]_vars

\* The place in the log of the first 'close' or 'error', 0 when there is none.
FirstEnd(log) ==
    LET ends == {i \in 1..Len(log) : log[i].ev \in {"close", "error"}}
    IN IF ends = {} THEN 0 ELSE CHOOSE i \in ends : \A j \in ends : i <= j

RECURSIVE ChunksOf(_, _)
\* The chunks of the events ev of the log, one after the other.
ChunksOf(log, ev) ==
    IF Len(log) = 0 THEN ""
    ELSE (IF Head(log).ev = ev THEN Head(log).chunk ELSE "")
            \o ChunksOf(Tail(log), ev)

\* C19: the promise of exec resolves with {data, error} when the process
\* emits 'close' and rejects with {error} when the process emits 'error'
\* (it could not be started); data is the chunks of stdout received before
\* that event, one after the other in the order of their arrival, and error
\* the chunks of stderr likewise. Until one of the two events the promise is
\* pending.
C19_PromiseSettlesWithCollectedOutput ==
    (last.op = "exec" /\ ~last.threw) =>
        LET i == FirstEnd(lftp.log)
            before == SubSeq(lftp.log, 1, i - 1)
        IN IF i = 0 THEN lftp.promise = "pending"
           ELSE IF lftp.log[i].ev = "close"
           THEN /\ lftp.promise = "resolved"
                /\ lftp.value = [ data |-> ChunksOf(before, "stdout"),
                                  error |-> ChunksOf(before, "stderr") ]
           ELSE /\ lftp.promise = "rejected"
                /\ lftp.value = [error |-> ChunksOf(before, "stderr")]

\* The promise has resolved after two chunks of stdout with a chunk of stderr
\* between them.
C19_Witness ==
    /\ last.op = "exec"
    /\ lftp.promise = "resolved"
    /\ lftp.value = [data |-> "ba", error |-> "y"]
    /\ Len(lftp.log) = 4
    /\ lftp.log[2].ev = "stderr"

----------------------------------------------------------------------------
(* Calls of wait and of fg on the instance. The class defines neither (fg  *)
(* is a comment that says it is still to be written), so lftp.wait(x) and  *)
(* lftp.fg(x) look the name up as this[cmd](args) does and find nothing to *)
(* call.                                                                   *)

WaitArgs == {Undef, Num(1), Str("all")}

CallWait == \E x \in WaitArgs : Call("wait", <<x>>, Dispatch(Str("wait"), x))

CallFg == \E x \in WaitArgs : Call("fg", <<x>>, Dispatch(Str("fg"), x))

NextWait == CallRaw \/ CallLs \/ CallWait \/ CallFg \/ CallExec \/ Return

SpecWait == Init /\ [][NextWait]_vars

\* C20: the builder has wait and fg: wait() queues 'wait', wait(n) queues
\* 'wait n', wait('all') queues 'wait all', and fg(x) queues what wait(x)
\* queues.
C20_WaitAndFgQueueWait ==
    last.op \in {"wait", "fg"} =>
        /\ ~last.threw
        /\ cmds = Append(last.before,
                    IF last.args[1] = Undef THEN "wait"
                    ELSE IF last.args[1].t = "number"
                        THEN "wait " \o Digits[last.args[1].n + 1]
                    ELSE "wait " \o last.args[1].s)

----------------------------------------------------------------------------
(* Further properties of the executor.                                     *)

\* C21: exec empties the queue before the process is launched and never
\* puts an entry back: from the call of exec on, through every event of the
\* process, the queue is empty, whether the process closes, reports an error
\* or the call of spawn itself throws.
C21_ExecLeavesQueueEmpty ==
    last.op = "exec" =>
        /\ cmds = <<>>
        /\ Len(last.spawn) = 1
        /\ last.threw <=> lftp.promise = "none"

\* An exec that found two entries has been rejected by an 'error' of the
\* process, which then closed.
C21_Witness ==
    /\ last.op = "exec"
    /\ Len(last.before) = 2
    /\ lftp.promise = "rejected"
    /\ Len(lftp.log) = 2
    /\ lftp.log[2].ev = "close"
    /\ cmds = <<>>

----------------------------------------------------------------------------
(* Builder calls, exec calls and the ends of the processes in any order:   *)
(* the history is kept, and a process that exec has spawned closes at any  *)
(* later moment, also after further builders and further execs were        *)
(* called.                                                                 *)

InitConc ==
    /\ \E b \in {c \in MainBags : c.cwd = Str("d")} :
        /\ ctor = [opts |-> b, state |-> "ok", msg |-> ""]
        /\ options = ctorOptions(b)
        /\ spawnOptions = ctorSpawnOptions(b)
    /\ cmds = <<>>
    /\ esc = NoEsc
    /\ last = NoCall
    /\ lftp = NoProcess
    /\ hist = [NoHist EXCEPT !.on = TRUE]

\* The process of an earlier exec emits 'close': the listeners of lines
\* 134-138 settle that exec's promise and touch nothing of the instance.
ProcessCloses ==
    \E i \in 1..Len(hist.procs) :
        /\ hist.procs[i].state = "running"
        /\ hist' = [hist EXCEPT !.procs[i].state = "closed"]
        /\ UNCHANGED <<esc, ctor, options, spawnOptions, cmds, last, lftp>>

NextConc == CallRaw \/ CallLs \/ CallExec \/ ProcessCloses \/ Return

SpecConc == InitConc /\ [][NextConc]_vars

RECURSIVE HandedOver(_)
\* The entries of the execs of procs, one exec after the other.
HandedOver(procs) ==
    IF Len(procs) = 0 THEN <<>>
    ELSE Head(procs).entries \o HandedOver(Tail(procs))

\* C22: in any order of builder calls, exec calls and ends of processes, the
\* entries handed to the processes, exec after exec, and then the entries
\* still queued are the entries that were queued, each once and in the order
\* of the queueing; so an entry queued after an exec has returned and before
\* its process closes is no part of that exec's command string and is part
\* of the next one's. The command string of an exec is the preamble, the
\* extra commands and the entries handed to it, in their order.
C22_EachEntryHandedToOneProcess ==
    /\ HandedOver(hist.procs) \o cmds = hist.appended
    /\ last.op = "exec" =>
        /\ Len(hist.procs) > 0
        /\ hist.procs[Len(hist.procs)].entries = last.before
        /\ last.spawn[1].args[2] =
              SemiJoined(baseCmd \o ExtrasOf(last.args[1])
                            \o hist.procs[Len(hist.procs)].entries)

\* 'ls' was queued while the process of the first exec, which got 'cmd1', was
\* running, and the second exec has handed it to its process; the first
\* process is still running.
C22_Witness ==
    /\ hist.appended = <<"cmd1", "ls">>
    /\ Len(hist.procs) = 2
    /\ hist.procs[1] = [entries |-> <<"cmd1">>, state |-> "running"]
    /\ hist.procs[2].entries = <<"ls">>
    /\ last.op = "exec"
    /\ cmds = <<>>

----------------------------------------------------------------------------
(* Further properties of the builders and of exec (Spec).                  *)

\* C23: no call of a builder and no call of exec changes this.options (the
\* host URI, the user name, the password, the protocol, the retries, the
\* timeout, the retry interval and its multiplier, autoConfirm, the escape
\* mode) or this.spawnOptions: they stay as the constructor set them, so the
\* preamble is the same before and after every step, and the command string
\* of every exec starts with it.
C23_OptionsNeverChange ==
    [][ /\ options' = options
        /\ spawnOptions' = spawnOptions
        /\ options' = ctorOptions(ctor.opts)
        /\ baseCmd' = baseCmd
        /\ last'.op = "exec" =>
              StartsWith(last'.spawn[1].args[2], SemiJoined(baseCmd) \o ";")
              \/ last'.spawn[1].args[2] = SemiJoined(baseCmd) ]_vars

\* A second exec in a row has been called, after builders were.
C23_Witness ==
    /\ last.op = "exec"
    /\ last.afterExec
    /\ options = ctorOptions(ctor.opts)
    /\ last.spawn[1].args[2] = SemiJoined(baseCmd)

----------------------------------------------------------------------------
(* exit: every sub-command, with and without a code (SpecExit).            *)

CallExitOpts ==
    \E subCmd \in {Undef, Str("bg"), Str("top"), Str("parent"), Str("kill"),
                   Str("quit")},
       code \in {Absent, Num(0), Num(1)} :
        /\ RawOnly
        /\ LET opts == Opts(ExitKeys, [code |-> code])
           IN Call("exit", <<subCmd, opts>>, exit(subCmd, opts))

NextExit == CallRaw \/ CallExitOpts \/ CallExec \/ Return

SpecExit == Init /\ [][NextExit]_vars

\* C24: exit(subCmd, opts) raises an argument error and queues nothing when
\* subCmd is not one of bg, top, parent and kill; the code of opts is queued
\* only with kill ('exit kill <code>'): for bg, top and parent the entry is
\* exactly 'exit <subCmd>', also when a code is given.
C24_ExitCodeOnlyWithKill ==
    last.op = "exit" =>
        LET subCmd == last.args[1]
            code == last.args[2]["code"]
        IN IF subCmd \notin {Str("bg"), Str("top"), Str("parent"), Str("kill")}
           THEN last.threw /\ last.err = "Error" /\ cmds = last.before
           ELSE /\ ~last.threw
                /\ cmds = Append(last.before,
                        IF subCmd = Str("kill") /\ code # Absent
                        THEN "exit kill " \o ToStr(code)
                        ELSE "exit " \o subCmd.s)

----------------------------------------------------------------------------
(* debug: every kind of level, every combination of options (SpecDebug).   *)

CallDebugOpts ==
    \E level \in {Undef, Num(0), Num(1), Str("off"), Str("on")},
       truncate \in {Absent, Bool(TRUE)},
       outputFile \in {Absent, Str("f 1")},
       context \in {Absent, Bool(TRUE)},
       pid \in {Absent, Bool(TRUE)},
       timestamps \in {Absent, Bool(TRUE)} :
        /\ RawOnly
        /\ LET opts == [ truncate |-> truncate, outputFile |-> outputFile,
                         context |-> context, pid |-> pid,
                         timestamps |-> timestamps ]
           IN Call("debug", <<level, opts>>, debug(level, opts))

NextDebug == CallRaw \/ CallDebugOpts \/ CallExec \/ Return

SpecDebug == Init /\ [][NextDebug]_vars

\* C25: debug(level, opts) raises an argument error, and queues nothing, only
\* when level is absent or is a string other than 'off'; for every number, 0
\* included, and for 'off' it queues 'debug', then -T, '-o <file>', -c, -p and
\* -t in that order for the options given, then the level.
C25_DebugAcceptsEveryNumber ==
    last.op = "debug" =>
        LET level == last.args[1]
            o == last.args[2]
            flag(k, f) == IF o[k] # Absent THEN " " \o f ELSE ""
        IN IF level = Undef \/ (level.t = "string" /\ level # Str("off"))
           THEN last.threw /\ last.err = "Error" /\ cmds = last.before
           ELSE /\ ~last.threw
                /\ cmds = Append(last.before,
                        "debug" \o flag("truncate", "-T")
                        \o (IF o.outputFile # Absent
                            THEN " -o " \o Escaped(o.outputFile) ELSE "")
                        \o flag("context", "-c") \o flag("pid", "-p")
                        \o flag("timestamps", "-t")
                        \o " " \o ToStr(level))

----------------------------------------------------------------------------
(* glob: the existence tests and the command (SpecGlob).                   *)

\* C26: an entry queued by glob holds exactly one of '--exist' and
\* '--not-exist' when exist or notExist is set, never both, also when both
\* options are true, and then ends with '&& <command>' exactly when a command
\* is given; when neither is set the entry is
\* 'glob <flags> <command> <patterns>'.
C26_GlobOneExistenceFlag ==
    (last.op = "glob" /\ ~last.threw) =>
        LET o == last.args[2]
            patterns == Escaped(last.args[1])
            flags == Opt(o.plainFiles = Bool(TRUE), "-f")
                     \o Opt(o.directories = Bool(TRUE), "-d")
                     \o Opt(o.allTypes = Bool(TRUE), "-a")
            tail == Opt(o.command # Absent, "&& " \o ToStr(o.command))
        IN /\ Queued
           /\ IF o.exist = Bool(TRUE) \/ o.notExist = Bool(TRUE)
              THEN /\ Contains(Entry, "--exist") # Contains(Entry, "--not-exist")
                   /\ \/ Entry = "glob" \o flags \o " --exist " \o patterns
                                 \o tail
                      \/ Entry = "glob" \o flags \o " --not-exist " \o patterns
                                 \o tail
              ELSE Entry = "glob" \o flags \o " " \o ToStr(o.command)
                           \o " " \o patterns

----------------------------------------------------------------------------
(* command: builders that queue an entry, raw that may queue none, a name  *)
(* that is no method (SpecCommand).                                        *)

CallCommandOpts ==
    \E cmd \in {Undef, Str("cd"), Str("echo"), Str("ls"), Str("raw"),
                Str("exit"), Str("nope")},
       args \in {Undef, Str("f 1"), Str("bg"), Num(1)} :
        /\ RawOnly
        /\ Call("command", <<cmd, args>>, command(cmd, args))

NextCommand == CallRaw \/ CallCommandOpts \/ CallExec \/ Return

SpecCommand == Init /\ [][NextCommand]_vars

\* C27: after a command(cmd, args) that returns, the last entry of the queue
\* is 'command ' followed by the entry that the builder named cmd queued for
\* args in this call; it never wraps an entry queued by an earlier call, also
\* when the builder named cmd queues nothing for args.
C27_CommandWrapsItsOwnEntry ==
    (last.op = "command" /\ ~last.threw) =>
        LET n == Len(last.before)
        IN /\ Len(cmds) > n
           /\ SubSeq(cmds, 1, n) = last.before
           /\ IF Len(cmds) >= n + 2
              THEN Entry = "command " \o cmds[Len(cmds) - 1]
              ELSE n > 0 => Entry # "command " \o last.before[n]

----------------------------------------------------------------------------
(* raw: strings of every kind and values that are no strings (SpecRaw).    *)

CallRawAny ==
    \E cmd \in {Undef, Num(1), Bool(TRUE), Str(""), Str("cmd1"),
                Str("a b;c$")} :
        Call("raw", <<cmd>>, raw(cmd))

NextRaw ==
    CallRawAny \/ CallCd \/ CallLs \/ CallCommand \/ CallExec \/ Return

SpecRaw == Init /\ [][NextRaw]_vars

\* C28: raw(cmd) queues cmd as it is, as the new last entry, when cmd is a
\* string, and queues nothing when it is not; it never throws and returns the
\* instance in both cases. No call other than exec takes an entry from the
\* queue or alters one: between two calls of exec the queue only grows, by
\* strings.
C28_RawQueuesStringsVerbatim ==
    [][ /\ last'.op = "raw" =>
              /\ ~last'.threw
              /\ last'.ret = "this"
              /\ cmds' = IF last'.args[1].t = "string"
                         THEN Append(cmds, last'.args[1].s)
                         ELSE cmds
        /\ last'.op # "exec" =>
              /\ Len(cmds') >= Len(cmds)
              /\ SubSeq(cmds', 1, Len(cmds)) = cmds
        /\ \A i \in 1..Len(cmds') : cmds'[i] \in STRING ]_vars

\* A string with a space, a semicolon and a dollar sign has been queued as it
\* is behind an earlier entry, by an instance that escapes.
C28_Witness ==
    /\ last.op = "raw"
    /\ options.escape = Bool(TRUE)
    /\ cmds = <<"cmd1", "a b;c$">>

----------------------------------------------------------------------------
(* The events of the process in any order and any number: 'error' and      *)
(* 'close' once or more, each before or after the other, chunks of output  *)
(* before and after them (SpecSettle).                                     *)

Emitting ==
    /\ last.op = "exec"
    /\ lftp.promise # "none"
    /\ Len(lftp.log) < MaxEvents

EmitStdoutData ==
    /\ Emitting
    /\ lftp' = Logged(stdoutOnData(lftp, "a"), "stdout", "a")
    /\ UNCHANGED <<esc, ctor, options, spawnOptions, cmds, last, hist>>

EmitStderrData ==
    /\ Emitting
    /\ lftp' = Logged(stderrOnData(lftp, "x"), "stderr", "x")
    /\ UNCHANGED <<esc, ctor, options, spawnOptions, cmds, last, hist>>

EmitError ==
    /\ Emitting
    /\ lftp' = Logged(onError(lftp), "error", "")
    /\ UNCHANGED <<esc, ctor, options, spawnOptions, cmds, last, hist>>

EmitClose ==
    /\ Emitting
    /\ lftp' = Logged(onClose(lftp), "close", "")
    /\ UNCHANGED <<esc, ctor, options, spawnOptions, cmds, last, hist>>

NextSettle ==
    \/ CallRaw \/ CallExec \/ EmitStdoutData \/ EmitStderrData \/ EmitError
    \/ EmitClose \/ Return

\* A listener runs within the emit of its event, so no fairness is needed for
\* an emitted event to be handled; that a process ever emits one is not
\* assumed.
SpecSettle == Init /\ [][NextSettle]_vars

\* The promise of the exec under way is settled.
Settled == lftp.promise \in {"resolved", "rejected"}

\* C29: the promise of one exec settles at most once. The first of the
\* process's 'error' and 'close' events fixes the outcome (rejected for
\* 'error', resolved for 'close'); no later 'error' or 'close' and no chunk of
\* output that arrives later changes the outcome or the value it was settled
\* with; and once the process has emitted 'close' or 'error' the promise
\* settles.
C29_PromiseSettlesOnce ==
    /\ [][ (last.op = "exec" /\ last'.op = "exec" /\ Settled) =>
              (lftp'.promise = lftp.promise /\ lftp'.value = lftp.value) ]_vars
    /\ [](LET i == FirstEnd(lftp.log)
          IN (last.op = "exec" /\ i # 0) =>
                lftp.promise = IF lftp.log[i].ev = "close" THEN "resolved"
                               ELSE "rejected")
    /\ (last.op = "exec" /\ FirstEnd(lftp.log) # 0)
          ~> (Settled \/ last.op # "exec")

\* The promise was rejected by an 'error' after one chunk of stderr, and has
\* stayed so through a second chunk and a 'close'.
C29_Witness ==
    /\ last.op = "exec"
    /\ Len(lftp.log) = 4
    /\ lftp.log[2].ev = "error"
    /\ lftp.log[3].ev = "stderr"
    /\ lftp.log[4].ev = "close"
    /\ lftp.stderr = <<"x", "x">>
    /\ lftp.promise = "rejected"
    /\ lftp.value = [error |-> "x"]

----------------------------------------------------------------------------
(* Paths with a statement separator in them (SpecPaths).                   *)

\* A path with a space, one with a ';', one with a backslash before a ';'.
PathVals == {Str("f 1"), Str("a;b"), Str("a\\;b")}

CallPathBuilder ==
    \E path \in PathVals :
        \/ Call("cd", <<path>>, cd(path))
        \/ Call("cat", <<path>>, cat(path))
        \/ Call("get", <<path, NoOpts(GetKeys)>>, get(path, NoOpts(GetKeys)))
        \/ Call("put", <<path, NoOpts(PutKeys)>>, put(path, NoOpts(PutKeys)))
        \/ Call("rm", <<<<path>>>>, rm(<<path>>))
        \/ Call("mv", <<path, Str("g")>>, mv(path, Str("g")))

NextPaths == CallRaw \/ CallPathBuilder \/ CallExec \/ Return

SpecPaths == Init /\ [][NextPaths]_vars

\* How many backslashes stand in s right before the place i.
BackslashesBefore(s, i) ==
    LET runs == {k \in 0..(i - 1) :
                    \A m \in (i - k)..(i - 1) : CharAt(s, m) = "\\"}
    IN CHOOSE k \in runs : \A j \in runs : j <= k

\* The number of statements of s: one more than its ';' that no backslash
\* escapes (a backslash escapes the character after it, so a ';' is escaped
\* when an odd number of backslashes stands before it).
Statements(s) ==
    1 + Cardinality({i \in 1..Len(s) :
                        /\ CharAt(s, i) = ";"
                        /\ BackslashesBefore(s, i) % 2 = 0})

\* C30: with the escaping on, a string given as the path of cd, cat, get,
\* put, rm or mv adds no statement, whatever it holds, a ';' included: the
\* command string that exec hands to the process splits at its unescaped ';'
\* into as many statements as the preamble has, plus the extra commands, plus
\* the entries of the queue.
C30_PathAddsNoStatement ==
    (last.op = "exec" /\ options.escape = Bool(TRUE)) =>
        Statements(last.spawn[1].args[2])
            = Len(baseCmd) + Len(ExtrasOf(last.args[1])) + Len(last.before)

====
